---- MODULE Spec2Model ----
(***************************************************************************)
(* Model of the lua-utils binding layers (glua-sprig, glua-strings,        *)
(* glua-runes, glua-json).                                                 *)
(*                                                                         *)
(* A binding is invoked with a stack of Lua values (args) and ends in one  *)
(* of three ways: it returns n values, it raises a Lua error, or a native  *)
(* panic leaves it uncaught.  Strings are sequences of bytes (0..255);     *)
(* numbers are integers (the model holds no fractional number).            *)
(***************************************************************************)
EXTENDS Integers, Sequences, FiniteSets, TLC

VARIABLES
    call,     \* the last binding invocation: [fn, args]
    out,      \* its outcome: [kind, vals, msg]
    prev,     \* the outcome of the same invocation made just before, if any
    now,      \* the wall clock, in seconds (time.Now)
    heap,     \* glua-json: the script's tables, table id -> sequence of <<key, value>>
    jroot,    \* glua-json: the value handed to json.encode
    jout,     \* glua-json: the outcome of json.encode
    jdec,     \* glua-json: the outcome of json.decode on the encoded text
    jpc       \* glua-json: "build", "encoded" or "decoded"

vars == <<call, out, prev, now, heap, jroot, jout, jdec, jpc>>
bindVars == <<call, out, prev, now>>
jsonVars == <<heap, jroot, jout, jdec, jpc>>

----------------------------------------------------------------------------
(* Bounds of the model. *)

\* longest subject string drawn for the string, rune and regex bindings
MaxStrLen == 2
\* longest regular expression drawn
MaxPatLen == 2
\* largest magnitude of an integer argument drawn
MaxInt == 3
\* number of clock ticks the model lets pass
MaxTicks == 1
\* number of tables a script builds before encoding
MaxTables == 2
\* number of table entries a script sets, over all its tables
MaxEntries == 2

----------------------------------------------------------------------------
(* Lua values (lua.LValue). *)

LNil == [t |-> "nil"]
LBool(b) == [t |-> "bool", b |-> b]
LNumber(n) == [t |-> "number", n |-> n]
LString(s) == [t |-> "string", s |-> s]
\* a table built by a binding: its entries <<key, value>> in iteration order
LTable(es) == [t |-> "table", es |-> es]
LTrue == LBool(TRUE)
LFalse == LBool(FALSE)

\* tb.Append / RawSetInt(i+1, v) over a Go slice: keys 1..N in slice order
ListTable(vs) == LTable([i \in 1..Len(vs) |-> <<LNumber(i), vs[i]>>])

----------------------------------------------------------------------------
(* Outcomes of a binding. *)

\* the LGFunction pushed vs and returned Len(vs)
Return(vs) == [kind |-> "return", vals |-> vs, msg |-> <<>>]
\* L.RaiseError / L.ArgError: a Lua error carrying msg
Raise(m) == [kind |-> "raise", vals |-> <<>>, msg |-> m]
\* a native Go panic that no handler of the binding recovers
Panic(m) == [kind |-> "panic", vals |-> <<>>, msg |-> m]

\* defer func() { if r := recover(); r != nil { L.RaiseError("<name>: %v", r) } }()
\* L.ArgError and L.RaiseError unwind by panic too, so the handler re-raises them.
Recover(name, o) ==
    IF o.kind \in {"panic", "raise"} THEN Raise(<<name>> \o o.msg) ELSE o

----------------------------------------------------------------------------
(* Sequence helpers. *)

RECURSIVE Flatten(_)
Flatten(ss) == IF ss = <<>> THEN <<>> ELSE Head(ss) \o Flatten(Tail(ss))

Take(s, n) == SubSeq(s, 1, n)
Drop(s, n) == SubSeq(s, n + 1, Len(s))

\* all sequences over S of length at most n
SeqsUpTo(S, n) == UNION {[1..k -> S] : k \in 0..n}

Pow2(k) == 2 ^ k

\* decimal digits of a natural number, as bytes
RECURSIVE NatDigits(_)
NatDigits(n) == IF n < 10 THEN <<48 + n>> ELSE NatDigits(n \div 10) \o <<48 + (n % 10)>>

\* strconv.Itoa / fmt "%d" / LNumber.String for an integer
Itoa(n) == IF n < 0 THEN <<45>> \o NatDigits(-n) ELSE NatDigits(n)

IsDecimalDigit(c) == c \in 48..57

----------------------------------------------------------------------------
(* Argument access (gopher-lua LState). *)

GetTop(args) == Len(args)
Get(args, i) == IF i \in 1..Len(args) THEN args[i] ELSE LNil

\* L.CheckString(i) succeeds for a string and for a number (converted to text)
CanString(args, i) == Get(args, i).t \in {"string", "number"}
CheckString(args, i) ==
    LET v == Get(args, i) IN IF v.t = "number" THEN Itoa(v.n) ELSE v.s

\* parseNumber, for texts made of letters, the digits 1..9 and "-"
IsNumeral(s) ==
    LET d == IF s # <<>> /\ Head(s) = 45 THEN Tail(s) ELSE s IN
    d # <<>> /\ \A i \in 1..Len(d) : d[i] \in 49..57
RECURSIVE Atoi(_, _)
Atoi(s, acc) ==
    IF s = <<>> THEN acc
    ELSE IF Head(s) = 45 THEN -Atoi(Tail(s), 0)
    ELSE Atoi(Tail(s), 10 * acc + (Head(s) - 48))

\* L.CheckNumber(i) succeeds for a number and for a string that parses as one
CanNumber(args, i) ==
    LET v == Get(args, i) IN v.t = "number" \/ (v.t = "string" /\ IsNumeral(v.s))
CheckNumber(args, i) ==
    LET v == Get(args, i) IN IF v.t = "number" THEN v.n ELSE Atoi(v.s, 0)
\* L.CheckInt(i) succeeds for a number only
CanInt(args, i) == Get(args, i).t = "number"
CheckInt(args, i) == Get(args, i).n

\* L.OptInt(i, d): d when the argument is absent or nil
CanOptInt(args, i) == Get(args, i).t \in {"nil", "number"}
OptInt(args, i, d) == LET v == Get(args, i) IN IF v.t = "nil" THEN d ELSE v.n

\* the error L.CheckXxx(i) raises for a value of the wrong type
TypeError(i) == Raise(<<"bad argument", "type">>)
\* L.ArgError(i, message)
ArgError(i, m) == Raise(<<"bad argument", m>>)
----------------------------------------------------------------------------
(* encoding/base64 and encoding/base32 (StdEncoding, padded). *)

\* bit k (0 = most significant of the first unit) of a stream of w-bit units;
\* 0 past the end of the stream
Bit(units, w, k) ==
    IF (k \div w) + 1 > Len(units) THEN 0
    ELSE (units[(k \div w) + 1] \div Pow2(w - 1 - (k % w))) % 2

\* the v-bit unit number j (from 0) of a stream of w-bit units
Unit(units, w, v, j) ==
    LET RECURSIVE Acc(_, _)
        Acc(i, acc) == IF i = v THEN acc ELSE Acc(i + 1, 2 * acc + Bit(units, w, v * j + i))
    IN Acc(0, 0)

\* the whole bytes held by a run of w-bit units
UnitsToBytes(units, w) == [j \in 1..((Len(units) * w) \div 8) |-> Unit(units, w, 8, j - 1)]

\* value of a character in the base64 alphabet, -1 outside it
B64Index(c) ==
    IF c \in 65..90 THEN c - 65
    ELSE IF c \in 97..122 THEN c - 71
    ELSE IF c \in 48..57 THEN c + 4
    ELSE IF c = 43 THEN 62
    ELSE IF c = 47 THEN 63
    ELSE -1

B64Char(v) ==
    IF v < 26 THEN v + 65
    ELSE IF v < 52 THEN v + 71
    ELSE IF v < 62 THEN v - 4
    ELSE IF v = 62 THEN 43
    ELSE 47

\* value of a character in the base32 alphabet, -1 outside it
B32Index(c) ==
    IF c \in 65..90 THEN c - 65
    ELSE IF c \in 50..55 THEN c - 24
    ELSE -1

\* the decoders skip '\r' and '\n'
StripNewlines(s) == SelectSeq(s, LAMBDA c : c \notin {10, 13})

\* number of '=' that end the sequence g
RECURSIVE TrailingPad(_)
TrailingPad(g) ==
    IF g = <<>> \/ g[Len(g)] # 61 THEN 0 ELSE 1 + TrailingPad(SubSeq(g, 1, Len(g) - 1))

\* A padded text of quanta of q characters: every quantum but the last holds q
\* characters of the alphabet, the last may end in one of the pad counts allowed.
QuantaOK(s, q, pads, Index(_)) ==
    /\ Len(s) % q = 0
    /\ \A g \in 1..(Len(s) \div q) :
          LET quantum == SubSeq(s, (g - 1) * q + 1, g * q)
              pad == TrailingPad(quantum)
          IN /\ pad \in pads
             /\ (pad > 0 => g = Len(s) \div q)
             /\ \A i \in 1..(q - pad) : Index(quantum[i]) >= 0

\* the bytes of a valid padded text, quantum by quantum
QuantaBytes(s, q, w, Index(_)) ==
    Flatten([g \in 1..(Len(s) \div q) |->
        LET quantum == SubSeq(s, (g - 1) * q + 1, g * q)
            data == SubSeq(quantum, 1, q - TrailingPad(quantum))
        IN UnitsToBytes([i \in 1..Len(data) |-> Index(data[i])], w)])

\* base64.StdEncoding.DecodeString: [err, data]
Base64Decode(s0) ==
    LET s == StripNewlines(s0) IN
    IF QuantaOK(s, 4, {0, 1, 2}, B64Index)
    THEN [err |-> FALSE, data |-> QuantaBytes(s, 4, 6, B64Index)]
    ELSE [err |-> TRUE, data |-> <<>>]

\* base32.StdEncoding.DecodeString: [err, data]
Base32Decode(s0) ==
    LET s == StripNewlines(s0) IN
    IF QuantaOK(s, 8, {0, 1, 3, 4, 6}, B32Index)
    THEN [err |-> FALSE, data |-> QuantaBytes(s, 8, 5, B32Index)]
    ELSE [err |-> TRUE, data |-> <<>>]

\* base64.StdEncoding.EncodeToString
Base64Encode(data) ==
    LET nchars == (Len(data) * 8 + 5) \div 6
        npad == (4 - (nchars % 4)) % 4
    IN [i \in 1..nchars |-> B64Char(Unit(data, 8, 6, i - 1))] \o [i \in 1..npad |-> 61]

----------------------------------------------------------------------------
(* glua-sprig: base64 and base32 bindings. *)

B32decFunc(args) ==
    IF GetTop(args) < 1 THEN ArgError(1, "b32dec requires 1 arguments")
    ELSE IF ~CanString(args, 1) THEN TypeError(1)
    ELSE LET r == Base32Decode(CheckString(args, 1)) IN
         IF r.err THEN Raise(<<"b32dec", "illegal base32 data">>)
         ELSE Return(<<LString(r.data)>>)

B64decFunc(args) ==
    IF GetTop(args) < 1 THEN ArgError(1, "b64dec requires 1 arguments")
    ELSE IF ~CanString(args, 1) THEN TypeError(1)
    ELSE LET r == Base64Decode(CheckString(args, 1)) IN
         IF r.err THEN Raise(<<"b64dec", "illegal base64 data">>)
         ELSE Return(<<LString(r.data)>>)

B64encFunc(args) ==
    IF GetTop(args) < 1 THEN ArgError(1, "b64enc requires 1 arguments")
    ELSE IF ~CanString(args, 1) THEN TypeError(1)
    ELSE Return(<<LString(Base64Encode(CheckString(args, 1)))>>)
----------------------------------------------------------------------------
(* unicode/utf8. *)

\* utf8.RuneError, U+FFFD
RuneError == 65533
\* unicode.MaxRune
MaxRune == 1114111

IsCont(b) == b \in 128..191

\* utf8.DecodeRune / DecodeRuneInString: [r, size]
DecodeRune(b) ==
    LET n == Len(b)
        bad == [r |-> RuneError, size |-> 1]
    IN
    IF n = 0 THEN [r |-> RuneError, size |-> 0]
    ELSE IF b[1] < 128 THEN [r |-> b[1], size |-> 1]
    ELSE IF b[1] \in 194..223 THEN
        IF n >= 2 /\ IsCont(b[2])
        THEN [r |-> (b[1] - 192) * 64 + (b[2] - 128), size |-> 2]
        ELSE bad
    ELSE IF b[1] \in 224..239 THEN
        IF /\ n >= 3
           /\ b[2] \in (IF b[1] = 224 THEN 160..191 ELSE IF b[1] = 237 THEN 128..159 ELSE 128..191)
           /\ IsCont(b[3])
        THEN [r |-> (b[1] - 224) * 4096 + (b[2] - 128) * 64 + (b[3] - 128), size |-> 3]
        ELSE bad
    ELSE IF b[1] \in 240..244 THEN
        IF /\ n >= 4
           /\ b[2] \in (IF b[1] = 240 THEN 144..191 ELSE IF b[1] = 244 THEN 128..143 ELSE 128..191)
           /\ IsCont(b[3])
           /\ IsCont(b[4])
        THEN [r |-> (b[1] - 240) * 262144 + (b[2] - 128) * 4096
                        + (b[3] - 128) * 64 + (b[4] - 128), size |-> 4]
        ELSE bad
    ELSE bad

\* utf8.ValidRune
utf8ValidRune(r) == (r \in 0..55295) \/ (r \in 57344..MaxRune)

\* utf8.RuneLen: -1 for a value that is no valid rune
RuneLen(r) ==
    IF r < 0 THEN -1
    ELSE IF r <= 127 THEN 1
    ELSE IF r <= 2047 THEN 2
    ELSE IF r \in 55296..57343 THEN -1
    ELSE IF r <= 65535 THEN 3
    ELSE IF r <= MaxRune THEN 4
    ELSE -1

\* utf8.EncodeRune: an invalid rune is written as U+FFFD
EncodeRune(r0) ==
    LET r == IF utf8ValidRune(r0) THEN r0 ELSE RuneError IN
    IF r <= 127 THEN <<r>>
    ELSE IF r <= 2047 THEN <<192 + (r \div 64), 128 + (r % 64)>>
    ELSE IF r <= 65535 THEN <<224 + (r \div 4096), 128 + ((r \div 64) % 64), 128 + (r % 64)>>
    ELSE <<240 + (r \div 262144), 128 + ((r \div 4096) % 64),
           128 + ((r \div 64) % 64), 128 + (r % 64)>>

\* []rune(s)
RECURSIVE Runes(_)
Runes(s) ==
    IF s = <<>> THEN <<>>
    ELSE LET d == DecodeRune(s) IN <<d.r>> \o Runes(Drop(s, d.size))

\* string(runes)
StringOfRunes(rs) == Flatten([i \in 1..Len(rs) |-> EncodeRune(rs[i])])

\* utf8.RuneCountInString
RuneCountInString(s) == Len(Runes(s))

----------------------------------------------------------------------------
(* glua-runes. *)

RuneAt(args) ==
    IF ~CanString(args, 1) THEN TypeError(1)
    ELSE IF ~CanInt(args, 2) THEN TypeError(2)
    ELSE LET s == CheckString(args, 1)
             pos == CheckInt(args, 2) - 1
         IN IF pos < 0 \/ pos >= Len(s) THEN Return(<<LNil>>)
            ELSE LET d == DecodeRune(Drop(s, pos)) IN
                 IF d.r = RuneError THEN Return(<<LNil>>)
                 ELSE Return(<<LNumber(d.r)>>)

\* RuneIndex, were the search always begun at the first rune
RuneIndex_FromFirst(args) ==
    IF ~CanString(args, 1) THEN TypeError(1)
    ELSE IF ~CanInt(args, 2) THEN TypeError(2)
    ELSE IF ~CanOptInt(args, 3) THEN TypeError(3)
    ELSE LET runes == Runes(CheckString(args, 1))
             hits == {i \in 1..Len(runes) : runes[i] = CheckInt(args, 2)}
         IN IF hits # {}
            THEN Return(<<LNumber(CHOOSE i \in hits : \A j \in hits : i <= j)>>)
            ELSE Return(<<LNil>>)

RuneIndex(args) ==
    IF ~CanString(args, 1) THEN TypeError(1)
    ELSE IF ~CanInt(args, 2) THEN TypeError(2)
    ELSE IF ~CanOptInt(args, 3) THEN TypeError(3)
    ELSE LET s == CheckString(args, 1)
             search == CheckInt(args, 2)
             pos0 == OptInt(args, 3, 1) - 1
             runes == Runes(s)
             pos == IF pos0 < 0 THEN 0 ELSE pos0
             \* the Go indices i (from 0) of the loop that hold the rune
             hits == {i \in pos..(Len(runes) - 1) : runes[i + 1] = search}
         IN IF hits # {}
            THEN Return(<<LNumber((CHOOSE i \in hits : \A j \in hits : i <= j) + 1)>>)
            ELSE Return(<<LNil>>)

RuneRange(args) ==
    IF ~CanString(args, 1) THEN TypeError(1)
    ELSE IF ~CanOptInt(args, 2) THEN TypeError(2)
    ELSE IF ~CanOptInt(args, 3) THEN TypeError(3)
    ELSE LET s == CheckString(args, 1)
             start0 == OptInt(args, 2, 1) - 1
             end0 == OptInt(args, 3, -1)
             runes == Runes(s)
             runeLen == Len(runes)
             start1 == IF start0 < 0 THEN 0 ELSE start0
             start == IF start1 > runeLen THEN runeLen ELSE start1
             end1 == end0 - 1
             end2 == IF end1 > runeLen THEN runeLen ELSE end1
             end == IF end0 < 0 THEN runeLen
                    ELSE IF end2 < 0 THEN 0 ELSE end2
         IN \* runes[start:end] panics when start > end
            IF start > end THEN Panic(<<"runtime error", "slice bounds out of range">>)
            ELSE Return(<<LString(StringOfRunes(SubSeq(runes, start + 1, end)))>>)

RuneWidth(args) ==
    IF ~CanInt(args, 1) THEN TypeError(1)
    ELSE LET width == RuneLen(CheckInt(args, 1)) IN
         IF width = -1 THEN Return(<<LNil>>)
         ELSE Return(<<LNumber(width)>>)

----------------------------------------------------------------------------
(* package strings (the Go standard library). *)

HasPrefix(s, p) == Len(p) <= Len(s) /\ SubSeq(s, 1, Len(p)) = p

\* strings.Index: the byte offset (from 0) of the first sep in s, or -1
Index(s, sep) ==
    LET at == {i \in 0..(Len(s) - Len(sep)) : SubSeq(s, i + 1, i + Len(sep)) = sep}
    IN IF at = {} THEN -1 ELSE CHOOSE i \in at : \A j \in at : i <= j

\* strings.Count: non-overlapping instances of sep; runes + 1 for an empty sep
RECURSIVE Count(_, _)
Count(s, sep) ==
    IF sep = <<>> THEN RuneCountInString(s) + 1
    ELSE LET m == Index(s, sep) IN
         IF m < 0 THEN 0 ELSE 1 + Count(Drop(s, m + Len(sep)), sep)

\* strings.explode: s split into UTF-8 sequences, at most n of them
RECURSIVE explodeLoop(_, _)
explodeLoop(s, n) ==
    IF n <= 0 THEN <<>>
    ELSE IF n = 1 THEN <<s>>
    ELSE LET size == DecodeRune(s).size IN
         <<Take(s, size)>> \o explodeLoop(Drop(s, size), n - 1)

explode(s, n) ==
    LET l == RuneCountInString(s) IN
    explodeLoop(s, IF n < 0 \/ n > l THEN l ELSE n)

\* the loop of strings.genSplit: at most n more cuts
RECURSIVE genSplitLoop(_, _, _, _)
genSplitLoop(s, sep, sepSave, n) ==
    LET m == Index(s, sep) IN
    IF n <= 0 \/ m < 0 THEN <<s>>
    ELSE <<Take(s, m + sepSave)>> \o genSplitLoop(Drop(s, m + Len(sep)), sep, sepSave, n - 1)

\* strings.genSplit
genSplit(s, sep, sepSave, n) ==
    IF n = 0 THEN <<>>
    ELSE IF sep = <<>> THEN explode(s, n)
    ELSE LET n1 == IF n < 0 THEN Count(s, sep) + 1 ELSE n
             n2 == IF n1 > Len(s) + 1 THEN Len(s) + 1 ELSE n1
         IN genSplitLoop(s, sep, sepSave, n2 - 1)

SplitN(s, sep, n) == genSplit(s, sep, 0, n)
SplitAfterN(s, sep, n) == genSplit(s, sep, Len(sep), n)

\* strings.Repeat for count >= 0
RECURSIVE Repeat(_, _)
Repeat(s, count) == IF count <= 0 THEN <<>> ELSE s \o Repeat(s, count - 1)

----------------------------------------------------------------------------
(* glua-strings. *)

RetString(v) == Return(<<LString(v)>>)

\* RetStringList, were the table filled from key 0
RetStringList_FromZero(vs) ==
    Return(<<LTable([i \in 1..Len(vs) |-> <<LNumber(i - 1), LString(vs[i])>>])>>)

RetStringList(vs) == Return(<<ListTable([i \in 1..Len(vs) |-> LString(vs[i])])>>)

stringsRepeat(args) ==
    IF ~CanString(args, 1) THEN TypeError(1)
    ELSE IF ~CanInt(args, 2) THEN TypeError(2)
    ELSE LET s == CheckString(args, 1)
             t == CheckInt(args, 2)
         IN \* strings.Repeat panics on a negative count
            IF t < 0 THEN Panic(<<"strings", "negative Repeat count">>)
            ELSE RetString(Repeat(s, t))

\* stringsSplitN, were nothing pushed for n = 0
stringsSplitN_NoPush(args) ==
    IF ~CanString(args, 1) THEN TypeError(1)
    ELSE IF ~CanString(args, 2) THEN TypeError(2)
    ELSE IF ~CanInt(args, 3) THEN TypeError(3)
    ELSE IF CheckInt(args, 3) = 0 THEN Return(<<>>)
    ELSE RetStringList(SplitN(CheckString(args, 1), CheckString(args, 2), CheckInt(args, 3)))

stringsSplitN(args) ==
    IF ~CanString(args, 1) THEN TypeError(1)
    ELSE IF ~CanString(args, 2) THEN TypeError(2)
    ELSE IF ~CanInt(args, 3) THEN TypeError(3)
    ELSE LET s == CheckString(args, 1)
             t == CheckString(args, 2)
             n == CheckInt(args, 3)
         IN IF n = 0 THEN Return(<<LNil>>)
            ELSE RetStringList(SplitN(s, t, n))

stringsSplitAfterN(args) ==
    IF ~CanString(args, 1) THEN TypeError(1)
    ELSE IF ~CanString(args, 2) THEN TypeError(2)
    ELSE IF ~CanInt(args, 3) THEN TypeError(3)
    ELSE LET s == CheckString(args, 1)
             t == CheckString(args, 2)
             n == CheckInt(args, 3)
         IN IF n = 0 THEN Return(<<LNil>>)
            ELSE RetStringList(SplitAfterN(s, t, n))
----------------------------------------------------------------------------
(* package regexp, for the expressions the model draws: letters and groups. *)
(* Such an expression compiles when its parentheses balance, and then      *)
(* matches exactly the text of its letters.                                *)

\* nesting depth after each prefix of p, -1 once a ")" had no "(" to close
RECURSIVE ParenDepth(_, _)
ParenDepth(p, d) ==
    IF d < 0 \/ p = <<>> THEN d
    ELSE ParenDepth(Tail(p), IF Head(p) = 40 THEN d + 1 ELSE IF Head(p) = 41 THEN d - 1 ELSE d)

\* regexp.Compile: [err, expr, lit]
RegexpCompile(p) ==
    IF ParenDepth(p, 0) = 0
    THEN [err |-> FALSE, expr |-> p, lit |-> SelectSeq(p, LAMBDA c : c \notin {40, 41})]
    ELSE [err |-> TRUE, expr |-> p, lit |-> <<>>]

\* the successive matches of re in s from byte offset from: [lo, hi] pairs,
\* an empty match at every offset when re matches the empty text
RECURSIVE AllMatches(_, _, _)
AllMatches(re, s, from) ==
    IF re.lit = <<>> THEN [i \in 1..(Len(s) + 1 - from) |-> <<from + i - 1, from + i - 1>>]
    ELSE LET m == Index(Drop(s, from), re.lit) IN
         IF m < 0 THEN <<>>
         ELSE <<<<from + m, from + m + Len(re.lit)>>>>
              \o AllMatches(re, s, from + m + Len(re.lit))

\* Regexp.FindAllStringIndex(s, n): every match for n < 0, else the first n
FindAllStringIndex(re, s, n) ==
    LET all == AllMatches(re, s, 0) IN
    IF n < 0 \/ n >= Len(all) THEN all ELSE Take(all, n)

Slice(s, lo, hi) == SubSeq(s, lo + 1, hi)

\* Regexp.FindAllString
FindAllString(re, s, n) ==
    LET ms == FindAllStringIndex(re, s, n) IN
    [i \in 1..Len(ms) |-> Slice(s, ms[i][1], ms[i][2])]

\* Regexp.FindString
FindString(re, s) ==
    LET ms == FindAllStringIndex(re, s, 1) IN
    IF ms = <<>> THEN <<>> ELSE Slice(s, ms[1][1], ms[1][2])

\* Regexp.MatchString
MatchString(re, s) == FindAllStringIndex(re, s, 1) # <<>>

\* Regexp.ReplaceAllLiteralString, and ReplaceAllString for a template free of "$"
ReplaceAllLiteralString(re, src, repl) ==
    LET ms == FindAllStringIndex(re, src, -1)
        RECURSIVE Build(_, _)
        Build(i, lastMatchEnd) ==
            IF i > Len(ms) THEN Drop(src, lastMatchEnd)
            ELSE Slice(src, lastMatchEnd, ms[i][1]) \o repl \o Build(i + 1, ms[i][2])
    IN Build(1, 0)

\* Regexp.Split
RegexpSplit(re, s, n) ==
    IF n = 0 THEN <<>>
    ELSE IF Len(re.expr) > 0 /\ Len(s) = 0 THEN <<<<>>>>
    ELSE LET matches == FindAllStringIndex(re, s, n)
             \* the loop over matches: [strings, beg, end]
             RECURSIVE Loop(_, _)
             Loop(i, st) ==
                 IF i > Len(matches) \/ (n > 0 /\ Len(st.strings) = n - 1) THEN st
                 ELSE Loop(i + 1,
                        [strings |-> IF matches[i][2] # 0
                                     THEN Append(st.strings, Slice(s, st.beg, matches[i][1]))
                                     ELSE st.strings,
                         beg |-> matches[i][2],
                         end |-> matches[i][1]])
             fin == Loop(1, [strings |-> <<>>, beg |-> 0, end |-> 0])
         IN IF fin.end # Len(s) THEN Append(fin.strings, Drop(s, fin.beg)) ELSE fin.strings

\* err.Error() of a failed regexp.Compile, pushed as a Lua string
RegexpError == [t |-> "string", msg |-> "error parsing regexp"]

----------------------------------------------------------------------------
(* glua-sprig: the regex family. *)

RegexFindAllFunc(args) ==
    IF GetTop(args) < 3 THEN ArgError(1, "regexFindAll requires 3 arguments")
    ELSE IF ~CanString(args, 1) THEN TypeError(1)
    ELSE IF ~CanString(args, 2) THEN TypeError(2)
    ELSE IF ~CanNumber(args, 3) THEN TypeError(3)
    ELSE LET r == RegexpCompile(CheckString(args, 1))
             param1 == CheckString(args, 2)
             param2 == CheckNumber(args, 3)
         IN IF r.err THEN Return(<<LNil, RegexpError>>)
            ELSE LET result == FindAllString(r, param1, param2) IN
                 Return(<<ListTable([i \in 1..Len(result) |-> LString(result[i])]), LNil>>)

RegexFindFunc(args) ==
    IF GetTop(args) < 2 THEN ArgError(1, "regexFind requires 2 arguments")
    ELSE IF ~CanString(args, 1) THEN TypeError(1)
    ELSE IF ~CanString(args, 2) THEN TypeError(2)
    ELSE LET r == RegexpCompile(CheckString(args, 1)) IN
         IF r.err THEN Return(<<LNil, RegexpError>>)
         ELSE Return(<<LString(FindString(r, CheckString(args, 2))), LNil>>)

\* RegexMatchFunc, were a failed compile raised instead of returned
RegexMatchFunc_Raising(args) ==
    IF GetTop(args) < 2 THEN ArgError(1, "regexMatch requires 2 arguments")
    ELSE IF ~CanString(args, 1) THEN TypeError(1)
    ELSE IF ~CanString(args, 2) THEN TypeError(2)
    ELSE LET r == RegexpCompile(CheckString(args, 1)) IN
         IF r.err THEN Raise(<<"regexMatch", "error parsing regexp">>)
         ELSE Return(<<LBool(MatchString(r, CheckString(args, 2))), LNil>>)

RegexMatchFunc(args) ==
    IF GetTop(args) < 2 THEN ArgError(1, "regexMatch requires 2 arguments")
    ELSE IF ~CanString(args, 1) THEN TypeError(1)
    ELSE IF ~CanString(args, 2) THEN TypeError(2)
    ELSE LET r == RegexpCompile(CheckString(args, 1)) IN
         IF r.err THEN Return(<<LNil, RegexpError>>)
         ELSE Return(<<LBool(MatchString(r, CheckString(args, 2))), LNil>>)

RegexReplaceAllFunc(args) ==
    IF GetTop(args) < 3 THEN ArgError(1, "regexReplaceAll requires 3 arguments")
    ELSE IF ~CanString(args, 1) THEN TypeError(1)
    ELSE IF ~CanString(args, 2) THEN TypeError(2)
    ELSE IF ~CanString(args, 3) THEN TypeError(3)
    ELSE LET r == RegexpCompile(CheckString(args, 1)) IN
         IF r.err THEN Return(<<LNil, RegexpError>>)
         ELSE Return(<<LString(ReplaceAllLiteralString(r, CheckString(args, 2),
                                                       CheckString(args, 3))), LNil>>)

RegexReplaceAllLiteralFunc(args) ==
    IF GetTop(args) < 3 THEN ArgError(1, "regexReplaceAllLiteral requires 3 arguments")
    ELSE IF ~CanString(args, 1) THEN TypeError(1)
    ELSE IF ~CanString(args, 2) THEN TypeError(2)
    ELSE IF ~CanString(args, 3) THEN TypeError(3)
    ELSE LET r == RegexpCompile(CheckString(args, 1)) IN
         IF r.err THEN Return(<<LNil, RegexpError>>)
         ELSE Return(<<LString(ReplaceAllLiteralString(r, CheckString(args, 2),
                                                       CheckString(args, 3))), LNil>>)

RegexSplitFunc(args) ==
    IF GetTop(args) < 3 THEN ArgError(1, "mustRegexSplit requires 3 arguments")
    ELSE IF ~CanString(args, 1) THEN TypeError(1)
    ELSE IF ~CanString(args, 2) THEN TypeError(2)
    ELSE IF ~CanNumber(args, 3) THEN TypeError(3)
    ELSE LET r == RegexpCompile(CheckString(args, 1))
             param1 == CheckString(args, 2)
             param2 == CheckNumber(args, 3)
         IN IF r.err THEN Return(<<LNil, RegexpError>>)
            ELSE LET result == RegexpSplit(r, param1, param2) IN
                 Return(<<ListTable([i \in 1..Len(result) |-> LString(result[i])]), LNil>>)
----------------------------------------------------------------------------
(* The sprig functions behind the wrappers that install a recover handler. *)
(* A native result is [kind, err, val]: kind "panic" for a Go panic.       *)

NativeOK(v) == [kind |-> "ok", err |-> FALSE, val |-> v]
NativeErr(m) == [kind |-> "ok", err |-> TRUE, val |-> [t |-> "string", msg |-> m]]
NativePanic(m) == [kind |-> "panic", err |-> FALSE, val |-> m]

\* aes.BlockSize
BlockSize == 16

\* sprig decryptAES(password, crypt64): base64, then crypt[:BlockSize] as the iv,
\* then CBC over the rest; the plaintext itself is not modelled
decryptAES(password, crypt64) ==
    IF crypt64 = <<>> THEN NativeOK(LString(<<>>))
    ELSE LET d == Base64Decode(crypt64) IN
         IF d.err THEN NativeErr("illegal base64 data")
         ELSE IF Len(d.data) < BlockSize
              THEN NativePanic(<<"runtime error", "slice bounds out of range">>)
         ELSE IF (Len(d.data) - BlockSize) % BlockSize # 0
              THEN NativePanic(<<"crypto/cipher", "input not full blocks">>)
         ELSE NativeOK([t |-> "string", plain |-> <<password, d.data>>])

\* sprig encryptAES(password, plaintext): a fresh iv from rand.Reader leads the
\* ciphertext; the ciphertext itself is not modelled
encryptAES(password, plaintext, iv) ==
    IF plaintext = <<>> THEN NativeOK(LString(<<>>))
    ELSE NativeOK([t |-> "string", cipher |-> <<iv, password, plaintext>>])

\* semver.NewVersion, for texts of letters and the digits 1..9: a run of digits
NewVersion(s) ==
    IF s # <<>> /\ \A i \in 1..Len(s) : s[i] \in 49..57
    THEN [err |-> FALSE, v |-> Atoi(s, 0)]
    ELSE [err |-> TRUE, v |-> 0]

\* semver.NewConstraint, for the same texts led by an optional "<", "=" or ">"
NewConstraint(s) ==
    LET hasOp == s # <<>> /\ Head(s) \in {60, 61, 62}
        ver == NewVersion(IF hasOp THEN Tail(s) ELSE s)
    IN [err |-> ver.err, op |-> IF hasOp THEN Head(s) ELSE 61, v |-> ver.v]

\* sprig semverCompare(constraint, version)
semverCompare(constraint, version) ==
    LET c == NewConstraint(constraint)
        v == NewVersion(version)
    IN IF c.err THEN NativeErr("improper constraint")
       ELSE IF v.err THEN NativeErr("Invalid Semantic Version")
       ELSE NativeOK(LBool(IF c.op = 60 THEN v.v < c.v
                           ELSE IF c.op = 62 THEN v.v > c.v
                           ELSE v.v = c.v))

\* sprig abbrev(width, s), goutils.Abbreviate with offset 0
abbrev(width, s) ==
    IF width < 4 THEN s
    ELSE IF Len(s) <= width THEN s
    ELSE Take(s, width - 3) \o <<46, 46, 46>>

\* xstrings.Shuffle: the runes of str in the order a random permutation p gives
xstringsShuffle(str, p) ==
    IF str = <<>> THEN str
    ELSE LET runes == Runes(str) IN StringOfRunes([i \in 1..Len(runes) |-> runes[p[i]]])

\* the permutations rand can draw for the argument of shuffle
ShuffleDraws(args) ==
    IF GetTop(args) >= 1 /\ CanString(args, 1)
    THEN LET n == Len(Runes(CheckString(args, 1))) IN
         {p \in [1..n -> 1..n] : \A i, j \in 1..n : p[i] = p[j] => i = j}
    ELSE {<<>>}

\* time.Duration.String of a whole number of seconds
DurationString(d) ==
    LET u == IF d < 0 THEN -d ELSE d
        h == u \div 3600
        m == (u \div 60) % 60
        s == u % 60
        sign == IF d < 0 THEN <<45>> ELSE <<>>
    IN IF h > 0 THEN sign \o NatDigits(h) \o <<104>> \o NatDigits(m) \o <<109>> \o NatDigits(s) \o <<115>>
       ELSE IF m > 0 THEN sign \o NatDigits(m) \o <<109>> \o NatDigits(s) \o <<115>>
       ELSE sign \o NatDigits(s) \o <<115>>

----------------------------------------------------------------------------
(* glua-sprig: the remaining bindings. *)

\* the two-value push that follows "result, err := fn(param0, param1)"
PushResultErr(r) ==
    IF r.kind = "panic" THEN Panic(r.val)
    ELSE IF r.err THEN Return(<<LNil, r.val>>)
    ELSE Return(<<r.val, LNil>>)

isEmptyLuaValue(value) ==
    IF value.t = "nil" THEN TRUE
    ELSE IF value.t = "bool" THEN value = LFalse
    ELSE IF value.t = "number" THEN value.n = 0
    ELSE IF value.t = "string" THEN Len(value.s) = 0
    ELSE IF value.t = "table" THEN value.es = <<>>
    ELSE FALSE

AbbrevFunc(args) ==
    Recover("abbrev",
        IF GetTop(args) < 2 THEN ArgError(1, "abbrev requires 2 arguments")
        ELSE IF ~CanNumber(args, 1) THEN TypeError(1)
        ELSE IF ~CanString(args, 2) THEN TypeError(2)
        ELSE Return(<<LString(abbrev(CheckNumber(args, 1), CheckString(args, 2)))>>))

AgoFunc(args, clock) ==
    IF GetTop(args) < 1 THEN ArgError(1, "ago requires 1 argument")
    ELSE IF Get(args, 1).t # "number" THEN ArgError(1, "ago requires a number (Unix timestamp)")
    ELSE LET timestamp == CheckNumber(args, 1) IN
         Return(<<LString(DurationString(clock - timestamp))>>)

\* CoalesceFunc, were the loop to run on past the first value that is not empty
CoalesceFunc_LastFull(args) ==
    LET top == GetTop(args)
        full == {i \in 1..top : ~isEmptyLuaValue(Get(args, i))}
    IN IF top < 1 THEN ArgError(1, "coalesce requires at least 1 argument")
       ELSE IF full # {} THEN Return(<<Get(args, CHOOSE i \in full : \A j \in full : i >= j)>>)
       ELSE Return(<<LNil>>)

CoalesceFunc(args) ==
    LET top == GetTop(args)
        full == {i \in 1..top : ~isEmptyLuaValue(Get(args, i))}
    IN IF top < 1 THEN ArgError(1, "coalesce requires at least 1 argument")
       ELSE IF full # {} THEN Return(<<Get(args, CHOOSE i \in full : \A j \in full : i <= j)>>)
       ELSE Return(<<LNil>>)

DecryptAESFunc(args) ==
    Recover("decryptAES",
        IF GetTop(args) < 2 THEN ArgError(1, "decryptAES requires 2 arguments")
        ELSE IF ~CanString(args, 1) THEN TypeError(1)
        ELSE IF ~CanString(args, 2) THEN TypeError(2)
        ELSE PushResultErr(decryptAES(CheckString(args, 1), CheckString(args, 2))))

EncryptAESFunc(args, iv) ==
    Recover("encryptAES",
        IF GetTop(args) < 2 THEN ArgError(1, "encryptAES requires 2 arguments")
        ELSE IF ~CanString(args, 1) THEN TypeError(1)
        ELSE IF ~CanString(args, 2) THEN TypeError(2)
        ELSE PushResultErr(encryptAES(CheckString(args, 1), CheckString(args, 2), iv)))

\* the width of a Go int, scaled down from 64 bits
IntBits == 8
IntMin == -(2 ^ (IntBits - 1))
IntMax == 2 ^ (IntBits - 1) - 1
\* two's-complement wrap-around of an int result
WrapInt(x) == ((x - IntMin) % (2 ^ IntBits)) + IntMin

\* rand.Intn(n): the draw r of the random source brought into 0..n-1
Intn(r, n) == r % n

\* RandIntFunc, were reversed bounds swapped and drawn from
RandIntFunc_Swapping(args, r) ==
    IF GetTop(args) < 2 THEN ArgError(1, "randInt requires 2 arguments")
    ELSE IF ~CanNumber(args, 1) THEN TypeError(1)
    ELSE IF ~CanNumber(args, 2) THEN TypeError(2)
    ELSE LET a == CheckNumber(args, 1)
             b == CheckNumber(args, 2)
             min == IF a > b THEN b ELSE a
             max == IF a > b THEN a ELSE b
         IN IF min = max THEN Return(<<LNumber(min)>>)
            ELSE Return(<<LNumber(Intn(r, max - min) + min)>>)

\* RandIntFunc, were equal bounds drawn from as well
RandIntFunc_DrawsOnEqual(args, r) ==
    IF GetTop(args) < 2 THEN ArgError(1, "randInt requires 2 arguments")
    ELSE IF ~CanNumber(args, 1) THEN TypeError(1)
    ELSE IF ~CanNumber(args, 2) THEN TypeError(2)
    ELSE LET min == CheckNumber(args, 1)
             max == CheckNumber(args, 2)
         IN IF max < min THEN Return(<<LNumber(min)>>)
            ELSE Return(<<LNumber(Intn(r, 2) + min)>>)

\* min and max are Go ints: max - min wraps around at the width of int, and
\* rand.Intn panics for an argument that is not positive
RandIntFunc(args, r) ==
    IF GetTop(args) < 2 THEN ArgError(1, "randInt requires 2 arguments")
    ELSE IF ~CanNumber(args, 1) THEN TypeError(1)
    ELSE IF ~CanNumber(args, 2) THEN TypeError(2)
    ELSE LET min == CheckNumber(args, 1)
             max == CheckNumber(args, 2)
             n == WrapInt(max - min)
         IN IF (min = max) \/ (max <= min) THEN Return(<<LNumber(min)>>)
            ELSE IF n <= 0 THEN Panic(<<"invalid argument to Intn">>)
            ELSE Return(<<LNumber(WrapInt(Intn(r, n) + min))>>)

SemverCompareFunc(args) ==
    Recover("semverCompare",
        IF GetTop(args) < 2 THEN ArgError(1, "semverCompare requires 2 arguments")
        ELSE IF ~CanString(args, 1) THEN TypeError(1)
        ELSE IF ~CanString(args, 2) THEN TypeError(2)
        ELSE PushResultErr(semverCompare(CheckString(args, 1), CheckString(args, 2))))

ShuffleFunc(args, p) ==
    Recover("shuffle",
        IF GetTop(args) < 1 THEN ArgError(1, "shuffle requires 1 arguments")
        ELSE IF ~CanString(args, 1) THEN TypeError(1)
        ELSE Return(<<LString(xstringsShuffle(CheckString(args, 1), p))>>))
----------------------------------------------------------------------------
(* Tables a script passes to a binding (gopher-lua LTable).                *)
(* The entries es of such a table are listed array part first: the         *)
(* leading entries whose key is their own position are the array part,     *)
(* the others sit in the string-keyed and the general hash part.           *)

CanTable(args, i) == Get(args, i).t = "table"

\* the length of the array part
ArrayLen(es) ==
    LET ks == {k \in 0..Len(es) : \A i \in 1..k : es[i][1] = LNumber(i)}
    IN CHOOSE k \in ks : \A j \in ks : j <= k

\* every arrangement of the members of S
Perms(S) ==
    {p \in [1..Cardinality(S) -> S] : \A i, j \in 1..Cardinality(S) : p[i] = p[j] => i = j}

\* LTable.ForEach: the array part in index order, then the string-keyed
\* entries, then the remaining ones, each a Go map ranged over in an order
\* the runtime picks
ForEachOrders(es) ==
    LET k == ArrayLen(es)
        strI == {i \in (k + 1)..Len(es) : es[i][1].t = "string"}
        othI == {i \in (k + 1)..Len(es) : es[i][1].t # "string"}
    IN {SubSeq(es, 1, k) \o [j \in 1..Cardinality(strI) |-> es[p[j]]]
                         \o [j \in 1..Cardinality(othI) |-> es[q[j]]] :
            p \in Perms(strI), q \in Perms(othI)}

\* the orders in which ForEach may visit the table passed as argument 1
TableOrders(args) ==
    IF CanTable(args, 1) THEN ForEachOrders(Get(args, 1).es) ELSE {<<>>}

\* if num, ok := v.(lua.LNumber); ok { ... append(..., num) }
IsNumberEntry(e) == e[2].t = "number"
\* NumbersOf, were an entry that is no number taken as 0
NumbersOf_ZeroForOthers(order) ==
    [i \in 1..Len(order) |-> IF order[i][2].t = "number" THEN order[i][2].n ELSE 0]
NumbersOf(order) ==
    LET sel == SelectSeq(order, IsNumberEntry) IN [i \in 1..Len(sel) |-> sel[i][2].n]

\* LValue.String
LValueString(v) ==
    IF v.t = "nil" THEN <<110, 105, 108>>
    ELSE IF v.t = "bool" THEN (IF v.b THEN <<116, 114, 117, 101>> ELSE <<102, 97, 108, 115, 101>>)
    ELSE IF v.t = "number" THEN Itoa(v.n)
    ELSE IF v.t = "table" THEN <<116, 97, 98, 108, 101, 58>>
    ELSE v.s

----------------------------------------------------------------------------
(* glua-strings and glua-runes: the bindings that return a list. *)

\* strings.Fields, for text whose white space is the ASCII space
RECURSIVE Fields(_)
Fields(s) ==
    IF s = <<>> THEN <<>>
    ELSE IF Head(s) = 32 THEN Fields(Tail(s))
    ELSE LET m == Index(s, <<32>>) IN
         IF m < 0 THEN <<s>> ELSE <<Take(s, m)>> \o Fields(Drop(s, m))

stringsFields(args) ==
    IF ~CanString(args, 1) THEN TypeError(1)
    ELSE RetStringList(Fields(CheckString(args, 1)))

stringsSplit(args) ==
    IF ~CanString(args, 1) THEN TypeError(1)
    ELSE IF ~CanString(args, 2) THEN TypeError(2)
    ELSE RetStringList(genSplit(CheckString(args, 1), CheckString(args, 2), 0, -1))

stringsSplitAfter(args) ==
    IF ~CanString(args, 1) THEN TypeError(1)
    ELSE IF ~CanString(args, 2) THEN TypeError(2)
    ELSE LET t == CheckString(args, 2) IN
         RetStringList(genSplit(CheckString(args, 1), t, Len(t), -1))

RuneSlice(args) ==
    IF ~CanString(args, 1) THEN TypeError(1)
    ELSE LET runes == Runes(CheckString(args, 1)) IN
         Return(<<ListTable([i \in 1..Len(runes) |-> LNumber(runes[i])])>>)

\* the loop of RuneSplit from index i (0-based), the last cut at lastIdx
RECURSIVE RuneSplitLoop(_, _, _, _)
RuneSplitLoop(runes, sep, i, lastIdx) ==
    IF i >= Len(runes) THEN <<StringOfRunes(SubSeq(runes, lastIdx + 1, Len(runes)))>>
    ELSE IF runes[i + 1] = sep
         THEN <<StringOfRunes(SubSeq(runes, lastIdx + 1, i))>>
              \o RuneSplitLoop(runes, sep, i + 1, i + 1)
         ELSE RuneSplitLoop(runes, sep, i + 1, lastIdx)

RuneSplit(args) ==
    IF ~CanString(args, 1) THEN TypeError(1)
    ELSE IF ~CanInt(args, 2) THEN TypeError(2)
    ELSE LET runes == Runes(CheckString(args, 1))
             sep == CheckInt(args, 2)
         IN IF Len(runes) = 0 THEN RetStringList(<<(<<>>)>>)
            ELSE RetStringList(RuneSplitLoop(runes, sep, 0, 0))

StringToBytes(args) ==
    IF ~CanString(args, 1) THEN TypeError(1)
    ELSE LET s == CheckString(args, 1) IN
         Return(<<ListTable([i \in 1..Len(s) |-> LNumber(s[i])])>>)

\* order: the entries of the table in the order ForEach visits them
RuneToBytes(args, order) ==
    IF ~CanTable(args, 1) THEN TypeError(1)
    ELSE LET nums == NumbersOf(order)
             buf == Flatten([i \in 1..Len(nums) |-> EncodeRune(nums[i])])
         IN Return(<<ListTable([i \in 1..Len(buf) |-> LNumber(buf[i])])>>)

\* byte(num) of the numbers 0..255
BytesToString(args, order) ==
    IF ~CanTable(args, 1) THEN TypeError(1)
    ELSE Return(<<LString(NumbersOf(order))>>)

BytesToRune(args, order) ==
    IF ~CanTable(args, 1) THEN TypeError(1)
    ELSE LET r == DecodeRune(NumbersOf(order)).r IN
         IF r = RuneError THEN Return(<<LNil>>) ELSE Return(<<LNumber(r)>>)

----------------------------------------------------------------------------
(* glua-sprig: sortAlpha and seq. *)

\* a < b for Go strings (bytewise)
RECURSIVE LessStr(_, _)
LessStr(a, b) ==
    IF b = <<>> THEN FALSE
    ELSE IF a = <<>> THEN TRUE
    ELSE IF Head(a) # Head(b) THEN Head(a) < Head(b)
    ELSE LessStr(Tail(a), Tail(b))

\* sort.Strings
RECURSIVE SortStrings(_)
SortStrings(ss) ==
    IF ss = <<>> THEN <<>>
    ELSE LET m == CHOOSE i \in 1..Len(ss) : \A j \in 1..Len(ss) : ~LessStr(ss[j], ss[i])
         IN <<ss[m]>> \o SortStrings(SubSeq(ss, 1, m - 1) \o SubSeq(ss, m + 1, Len(ss)))

\* sprig sortAlpha: a slice is sorted, anything else becomes a list of one
sortAlpha(isSlice, param) == IF isSlice THEN SortStrings(param) ELSE <<param>>

SortAlphaFunc(args, order) ==
    Recover("sortAlpha",
        IF GetTop(args) < 1 THEN ArgError(1, "sortAlpha requires 1 argument")
        ELSE LET v == Get(args, 1)
                 result == IF v.t = "table"
                           THEN sortAlpha(TRUE, [i \in 1..Len(order) |-> LValueString(order[i][2])])
                           ELSE IF v.t = "string" THEN sortAlpha(FALSE, CheckString(args, 1))
                           ELSE sortAlpha(FALSE, LValueString(v))
             IN Return(<<ListTable([i \in 1..Len(result) |-> LString(result[i])])>>))

\* sprig untilStep
RECURSIVE untilStep(_, _, _)
untilStep(start, stop, step) ==
    IF stop < start
    THEN IF step >= 0 \/ start <= stop THEN <<>>
         ELSE <<start>> \o untilStep(start + step, stop, step)
    ELSE IF step <= 0 \/ start >= stop THEN <<>>
         ELSE <<start>> \o untilStep(start + step, stop, step)

\* sprig intArrayToString(slice, " ")
RECURSIVE intArrayToString(_)
intArrayToString(v) ==
    IF v = <<>> THEN <<>>
    ELSE IF Len(v) = 1 THEN Itoa(v[1])
    ELSE Itoa(v[1]) \o <<32>> \o intArrayToString(Tail(v))

\* sprig seq(params ...int)
seq(params) ==
    IF Len(params) = 1 THEN
        LET end == params[1]
            increment == IF end < 1 THEN -1 ELSE 1
        IN intArrayToString(untilStep(1, end + increment, increment))
    ELSE IF Len(params) = 2 THEN
        LET start == params[1]
            end == params[2]
            step == IF end < start THEN -1 ELSE 1
        IN intArrayToString(untilStep(start, end + step, step))
    ELSE IF Len(params) = 3 THEN
        LET start == params[1]
            end == params[3]
            step == params[2]
        IN IF end < start /\ step > 0 THEN <<>>
           ELSE intArrayToString(untilStep(start, end + (IF end < start THEN -1 ELSE 1), step))
    ELSE <<>>

SeqFunc(args, order) ==
    Recover("seq",
        IF GetTop(args) < 1 THEN ArgError(1, "seq requires 1 arguments")
        ELSE IF ~CanTable(args, 1) THEN TypeError(1)
        ELSE Return(<<LString(seq(NumbersOf(order)))>>))
----------------------------------------------------------------------------
(* glua-sprig: toDecimal and duration. *)

\* a Lua number with a fractional part, held in tenths (x10 is ten times the
\* number and no multiple of ten)
LFrac(x10) == [t |-> "number", x10 |-> x10]
IsFrac(v) == "x10" \in DOMAIN v

\* int64(f) of a float: the fractional part is dropped, toward zero
TruncInt(v) ==
    IF IsFrac(v)
    THEN (IF v.x10 < 0 THEN -((-v.x10) \div 10) ELSE v.x10 \div 10)
    ELSE v.n

\* fmt.Sprintf("%v", n) of a Lua number
FormatNumber(v) ==
    IF IsFrac(v)
    THEN LET a == IF v.x10 < 0 THEN -v.x10 ELSE v.x10 IN
         (IF v.x10 < 0 THEN <<45>> ELSE <<>>) \o NatDigits(a \div 10) \o <<46>> \o NatDigits(a % 10)
    ELSE Itoa(v.n)

\* the value of a run of digits in a base up to ten
RECURSIVE DigitsValue(_, _, _)
DigitsValue(d, base, acc) ==
    IF d = <<>> THEN acc ELSE DigitsValue(Tail(d), base, acc * base + (Head(d) - 48))

\* strconv.ParseInt, were every decimal digit taken in every base
ParseInt_AnyDigit(s, base) ==
    LET neg == s # <<>> /\ Head(s) = 45
        d == IF s # <<>> /\ Head(s) \in {43, 45} THEN Tail(s) ELSE s
        un == DigitsValue(d, base, 0)
    IN IF d = <<>> \/ \E i \in 1..Len(d) : d[i] \notin 48..57
       THEN [val |-> 0, err |-> TRUE]
       ELSE IF ~neg /\ un > IntMax THEN [val |-> IntMax, err |-> TRUE]
       ELSE IF neg /\ un > -IntMin THEN [val |-> IntMin, err |-> TRUE]
       ELSE [val |-> IF neg THEN -un ELSE un, err |-> FALSE]

\* strconv.ParseInt(s, base, 64) for a base up to ten: an optional sign and
\* at least one digit below the base, else a syntax error with value 0; a
\* value that does not fit the integer is a range error with the nearest
\* integer as value
ParseInt(s, base) ==
    LET neg == s # <<>> /\ Head(s) = 45
        d == IF s # <<>> /\ Head(s) \in {43, 45} THEN Tail(s) ELSE s
        un == DigitsValue(d, base, 0)
    IN IF d = <<>> \/ \E i \in 1..Len(d) : d[i] \notin 48..(47 + base)
       THEN [val |-> 0, err |-> TRUE]
       ELSE IF ~neg /\ un > IntMax THEN [val |-> IntMax, err |-> TRUE]
       ELSE IF neg /\ un > -IntMin THEN [val |-> IntMin, err |-> TRUE]
       ELSE [val |-> IF neg THEN -un ELSE un, err |-> FALSE]

ToDecimalFunc(args) ==
    IF GetTop(args) < 1 THEN ArgError(1, "toDecimal requires 1 argument")
    ELSE LET v == Get(args, 1)
             param == IF v.t = "string" THEN v.s
                      ELSE IF v.t = "number" THEN FormatNumber(v)
                      ELSE IF v.t = "bool" THEN (IF v.b THEN <<49>> ELSE <<48>>)
                      ELSE IF v.t = "nil" THEN <<48>>
                      ELSE LValueString(v)
             r == ParseInt(param, 8)
             result == IF r.err THEN 0 ELSE r.val
         IN Return(<<LNumber(result)>>)

\* time.Second: the units of a time.Duration in one second, scaled down from
\* 10^9 as the integer is from 64 bits
Second == 10

\* time.Duration.String of d units: a whole number of seconds as
\* DurationString gives it, a fraction of a second behind a point, and less
\* than a second in milliseconds
DurationUnitsString(d) ==
    LET u == IF d < 0 THEN -d ELSE d
        f == u % Second
        whole == DurationString(u \div Second)
        sign == IF d < 0 THEN <<45>> ELSE <<>>
    IN IF f = 0 THEN sign \o whole
       ELSE IF u < Second THEN sign \o NatDigits((f * 1000) \div Second) \o <<109, 115>>
       ELSE sign \o Take(whole, Len(whole) - 1) \o <<46>> \o NatDigits(f) \o <<115>>

\* n is an int64 and time.Duration(n) * time.Second wraps around at its width;
\* the error of ParseInt is dropped and its value kept
DurationFunc(args) ==
    IF GetTop(args) < 1 THEN ArgError(1, "duration requires 1 argument")
    ELSE LET v == Get(args, 1)
             n == IF v.t = "number" THEN TruncInt(v)
                  ELSE IF v.t = "string" THEN ParseInt(v.s, 10).val
                  ELSE IF v.t = "nil" THEN 0
                  ELSE ParseInt(LValueString(v), 10).val
             result == DurationUnitsString(WrapInt(n * Second))
         IN Return(<<LString(result)>>)

----------------------------------------------------------------------------
(* glua-sprig: the bindings that walk a table of values. *)

\* the callback of CompactFunc, were the value kept under the key it had
compactVisit_SameKey(st, e) ==
    IF ~isEmptyLuaValue(e[2])
    THEN [st EXCEPT !.resultTable = Append(@, <<e[1], e[2]>>),
                    !.newIndex = @ + 1]
    ELSE st

\* the callback CompactFunc passes to ForEach, on entry e: st holds the
\* tables and the counter of the function
compactVisit(st, e) ==
    IF ~isEmptyLuaValue(e[2])
    THEN [st EXCEPT !.resultTable = Append(@, <<LNumber(st.newIndex), e[2]>>),
                    !.newIndex = @ + 1]
    ELSE st

\* inputTable.ForEach(...) visiting the entries in the given order
RECURSIVE compactWalk(_, _)
compactWalk(order, st) ==
    IF order = <<>> THEN st ELSE compactWalk(Tail(order), compactVisit(st, Head(order)))

\* the tables and the counter of CompactFunc when ForEach has returned
compactEnd(args, order) ==
    compactWalk(order, [inputTable |-> Get(args, 1).es, resultTable |-> <<>>, newIndex |-> 1])

CompactFunc(args, order) ==
    IF GetTop(args) < 1 THEN ArgError(1, "compact requires 1 argument")
    ELSE IF ~CanTable(args, 1) THEN TypeError(1)
    ELSE Return(<<LTable(compactEnd(args, order).resultTable)>>)

\* the text UniqFunc remembers a value by: a string is its own text, a number
\* and a boolean their "%v" text, and a table its address "%p" (tables alike
\* are taken for one object here)
uniqKey(v) ==
    IF v.t = "string" THEN v.s
    ELSE IF v.t = "number" THEN FormatNumber(v)
    ELSE IF v.t = "bool" THEN LValueString(v)
    ELSE IF v.t = "nil" THEN <<110, 105, 108>>
    ELSE IF v.t = "table" THEN <<"%p", v>>
    ELSE LValueString(v)

\* the callback UniqFunc passes to ForEach, on entry e
uniqVisit(st, e) ==
    LET key == uniqKey(e[2]) IN
    IF key \notin st.seen
    THEN [st EXCEPT !.seen = @ \cup {key},
                    !.uniqueTable = Append(@, <<LNumber(st.i), e[2]>>),
                    !.i = @ + 1]
    ELSE st

RECURSIVE uniqWalk(_, _)
uniqWalk(order, st) ==
    IF order = <<>> THEN st ELSE uniqWalk(Tail(order), uniqVisit(st, Head(order)))

UniqFunc(args, order) ==
    IF GetTop(args) < 1 THEN ArgError(1, "uniq requires 1 argument")
    ELSE IF ~CanTable(args, 1) THEN TypeError(1)
    ELSE Return(<<LTable(uniqWalk(order, [uniqueTable |-> <<>>, seen |-> {}, i |-> 1]).uniqueTable)>>)

\* AllFunc, were result set anew at every value, so that the last one decides
AllFunc_LastDecides(args, order) ==
    IF GetTop(args) < 1 THEN ArgError(1, "all requires 1 arguments")
    ELSE IF ~CanTable(args, 1) THEN TypeError(1)
    ELSE Return(<<LBool(order = <<>> \/ ~isEmptyLuaValue(order[Len(order)][2]))>>)

\* result starts true and the callback sets it false at every empty value
AllFunc(args, order) ==
    IF GetTop(args) < 1 THEN ArgError(1, "all requires 1 arguments")
    ELSE IF ~CanTable(args, 1) THEN TypeError(1)
    ELSE LET RECURSIVE walk(_, _)
             walk(rest, result) ==
                 IF rest = <<>> THEN result
                 ELSE walk(Tail(rest), IF isEmptyLuaValue(Head(rest)[2]) THEN FALSE ELSE result)
         IN Return(<<LBool(walk(order, TRUE))>>)

\* result starts false and the callback sets it true at every value that is
\* not empty
AnyFunc(args, order) ==
    IF GetTop(args) < 1 THEN ArgError(1, "any requires 1 arguments")
    ELSE IF ~CanTable(args, 1) THEN TypeError(1)
    ELSE LET RECURSIVE walk(_, _)
             walk(rest, result) ==
                 IF rest = <<>> THEN result
                 ELSE walk(Tail(rest), IF ~isEmptyLuaValue(Head(rest)[2]) THEN TRUE ELSE result)
         IN Return(<<LBool(walk(order, FALSE))>>)

EmptyFunc(args) ==
    IF GetTop(args) < 1 THEN ArgError(1, "empty requires 1 argument")
    ELSE Return(<<LBool(isEmptyLuaValue(Get(args, 1)))>>)

----------------------------------------------------------------------------
(* glua-sprig: substr. *)

\* sprig substring(start, end, s): s[:end] for a negative start, s[start:]
\* for an end that is negative or past the string, else s[start:end]
substring(start, end, s) ==
    IF start < 0 THEN Take(s, end)
    ELSE IF end < 0 \/ end > Len(s) THEN Drop(s, start)
    ELSE SubSeq(s, start + 1, end)

SubstrFunc(args) ==
    Recover("substr",
        IF GetTop(args) < 3 THEN ArgError(1, "substr requires 3 arguments")
        ELSE IF ~CanNumber(args, 1) THEN TypeError(1)
        ELSE IF ~CanNumber(args, 2) THEN TypeError(2)
        ELSE IF ~CanString(args, 3) THEN TypeError(3)
        ELSE LET start0 == CheckNumber(args, 1)
                 end0 == CheckNumber(args, 2)
                 str == CheckString(args, 3)
                 length == Len(str)
                 start == IF start0 < 0 THEN 0 ELSE start0
                 end == IF end0 > length THEN length ELSE end0
             IN IF start >= length \/ start >= end THEN Return(<<LString(<<>>)>>)
                ELSE Return(<<LString(substring(start, end, str))>>))

----------------------------------------------------------------------------
(* The script under test: it calls one binding, and may call it again      *)
(* with the same arguments while the clock moves on.                       *)

NoCall == [fn |-> "none", args |-> <<>>]
NoOutcome == [kind |-> "none", vals |-> <<>>, msg |-> <<>>]

\* longest text drawn for the base64 decoders
MaxEncLen == 4

Strs == SeqsUpTo({97, 98}, MaxStrLen)
\* "a", and the two bytes of "é" in every arrangement
RuneStrs == SeqsUpTo({97, 195, 169}, MaxStrLen)
Pats == SeqsUpTo({97, 40, 41}, MaxPatLen)
Ints == (-MaxInt)..MaxInt
\* "Y", "Q" and the pad "="
EncTexts == SeqsUpTo({89, 81, 61}, MaxEncLen)
\* every prefix of "ME======", and a character outside the alphabet
B32Texts == {Take(<<77, 69, 61, 61, 61, 61, 61, 61>>, k) : k \in 0..8} \cup {<<49>>}

StrVals(S) == {LString(s) : s \in S}
IntVals == {LNumber(n) : n \in Ints}
\* what a script may pass where a number is wanted: a number, a numeral, a word
NumVals == IntVals \cup {LString(<<49>>), LString(<<97>>)}
\* an optional integer: absent (nil) or given
OptVals == IntVals \cup {LNil}
\* argument lists short of, or of the wrong type for, every binding
BadArgs == {<<>>, <<LNil>>, <<LTrue, LTrue, LTrue>>}

Args1(A) == {<<a>> : a \in A} \cup BadArgs
Args2(A, B) == {<<a, b>> : a \in A, b \in B} \cup BadArgs
Args3(A, B, C) == {<<a, b, c>> : a \in A, b \in B, c \in C} \cup BadArgs

\* the argument lists the script may pass to binding fn now
Calls(fn, domain) ==
    IF call.fn = "none" THEN domain
    ELSE IF call.fn = fn THEN {call.args}
    ELSE {}

\* the script calls fn(args), which ends in outcome o
Invoke(fn, args, o) ==
    /\ call' = [fn |-> fn, args |-> args]
    /\ out' = o
    /\ prev' = out
    /\ UNCHANGED now
    /\ UNCHANGED jsonVars

B32dec == \E args \in Calls("b32dec", Args1(StrVals(B32Texts))) :
    Invoke("b32dec", args, B32decFunc(args))
B64dec == \E args \in Calls("b64dec", Args1(StrVals(EncTexts))) :
    Invoke("b64dec", args, B64decFunc(args))
B64enc == \E args \in Calls("b64enc", Args1(StrVals(Strs))) :
    Invoke("b64enc", args, B64encFunc(args))
\* RuneStrs and the three-byte texts with a rune of one and a rune of two bytes
RuneTexts == RuneStrs \cup {<<195, 169, 97>>, <<97, 195, 169>>}
Runeat == \E args \in Calls("runeat", Args2(StrVals(RuneTexts), IntVals)) :
    Invoke("runeat", args, RuneAt(args))
Runeindex ==
    \E args \in Calls("runeindex",
                      Args3(StrVals(RuneTexts \cup {<<97, 195, 169, 97>>}),
                            {LNumber(97), LNumber(233), LNumber(RuneError)}, OptVals)
                      \cup Args2(StrVals(RuneTexts), {LNumber(97), LNumber(233)})) :
        Invoke("runeindex", args, RuneIndex(args))
Runerange == \E args \in Calls("runerange", Args3(StrVals(RuneTexts), OptVals, OptVals)) :
    Invoke("runerange", args, RuneRange(args))
Runewidth ==
    \E args \in Calls("runewidth",
                      Args1({LNumber(r) : r \in {-1, 97, 233, 8364, 55296, 65536, MaxRune, MaxRune + 1}})) :
        Invoke("runewidth", args, RuneWidth(args))
StringsRepeat == \E args \in Calls("Repeat", Args2(StrVals(Strs), IntVals)) :
    Invoke("Repeat", args, stringsRepeat(args))
StringsSplitN ==
    \E args \in Calls("SplitN", Args3(StrVals(Strs), StrVals(SeqsUpTo({97}, 1)), IntVals)) :
        Invoke("SplitN", args, stringsSplitN(args))
StringsSplitAfterN ==
    \E args \in Calls("SplitAfterN", Args3(StrVals(Strs), StrVals(SeqsUpTo({97}, 1)), IntVals)) :
        Invoke("SplitAfterN", args, stringsSplitAfterN(args))
RegexFindAll == \E args \in Calls("regexFindAll", Args3(StrVals(Pats), StrVals(Strs), NumVals)) :
    Invoke("regexFindAll", args, RegexFindAllFunc(args))
RegexFind == \E args \in Calls("regexFind", Args2(StrVals(Pats), StrVals(Strs))) :
    Invoke("regexFind", args, RegexFindFunc(args))
RegexMatch == \E args \in Calls("regexMatch", Args2(StrVals(Pats), StrVals(Strs))) :
    Invoke("regexMatch", args, RegexMatchFunc(args))
RegexReplaceAll ==
    \E args \in Calls("regexReplaceAll",
                      Args3(StrVals(Pats), StrVals(Strs), StrVals(SeqsUpTo({98}, 1)))) :
        Invoke("regexReplaceAll", args, RegexReplaceAllFunc(args))
RegexReplaceAllLiteral ==
    \E args \in Calls("regexReplaceAllLiteral",
                      Args3(StrVals(Pats), StrVals(Strs), StrVals(SeqsUpTo({98}, 1)))) :
        Invoke("regexReplaceAllLiteral", args, RegexReplaceAllLiteralFunc(args))
RegexSplit == \E args \in Calls("regexSplit", Args3(StrVals(Pats), StrVals(Strs), NumVals)) :
    Invoke("regexSplit", args, RegexSplitFunc(args))
Abbrev ==
    \E args \in Calls("abbrev",
                      Args2({LNumber(w) : w \in 0..(MaxInt + 1)} \cup {LString(<<97>>)},
                            StrVals(Strs \cup {<<97, 98, 97, 98, 97>>}))) :
        Invoke("abbrev", args, AbbrevFunc(args))
Ago == \E args \in Calls("ago", Args1(NumVals)) :
    Invoke("ago", args, AgoFunc(args, now))
Coalesce ==
    \E args \in Calls("coalesce",
                      SeqsUpTo({LNil, LFalse, LTrue, LNumber(0), LNumber(1), LString(<<>>),
                                LString(<<97>>), LTable(<<>>), ListTable(<<LNumber(1)>>)},
                               MaxStrLen + 1)) :
        Invoke("coalesce", args, CoalesceFunc(args))
DecryptAES ==
    \E args \in Calls("decryptAES", Args2(StrVals(SeqsUpTo({97}, 1)), StrVals(EncTexts))) :
        Invoke("decryptAES", args, DecryptAESFunc(args))
EncryptAES ==
    \E args \in Calls("encryptAES", Args2(StrVals(SeqsUpTo({97}, 1)), StrVals(Strs))) :
        \E iv \in 0..1 : Invoke("encryptAES", args, EncryptAESFunc(args, iv))
\* the bounds of randInt: small numbers, and the least and greatest int
RandBounds == NumVals \cup {LNumber(IntMin), LNumber(IntMax)}
\* what the random source may yield: the small draws, and the greatest
RandDraws == 0..(2 * MaxInt) \cup {IntMax}
RandInt == \E args \in Calls("randInt", Args2(RandBounds, RandBounds)) :
    \E r \in RandDraws : Invoke("randInt", args, RandIntFunc(args, r))
SemverCompare ==
    \E args \in Calls("semverCompare",
                      Args2(StrVals(SeqsUpTo({49, 50, 62, 97}, 2)) \cup {LNumber(1)},
                            StrVals(SeqsUpTo({49, 50, 97}, 1)) \cup {LNumber(2)})) :
        Invoke("semverCompare", args, SemverCompareFunc(args))
Shuffle == \E args \in Calls("shuffle", Args1(StrVals(Strs \cup RuneStrs))) :
    \E p \in ShuffleDraws(args) : Invoke("shuffle", args, ShuffleFunc(args, p))

\* most entries in a table passed to a binding
MaxTblLen == 3
TblKeys == {LNumber(1), LNumber(2), LNumber(3), LString(<<97>>)}
\* "a", the two bytes of "é", and two values that are no number
TblValues == {LNumber(97), LNumber(195), LNumber(169), LString(<<120>>), LTrue}
\* tables a script can build: keys distinct, key 1 at the head of the array part
ArgTablesOf(values) ==
    {LTable(es) : es \in
        {e \in SeqsUpTo(TblKeys \X values, MaxTblLen) :
            /\ \A i, j \in 1..Len(e) : e[i][1] = e[j][1] => i = j
            /\ \A i \in 1..Len(e) : e[i][1] = LNumber(1) => i = 1}}
ArgTables == ArgTablesOf(TblValues)
\* tables of small integers, with two values that are no number, for seq
SeqTables == ArgTablesOf({LNumber(-1), LNumber(1), LNumber(3), LString(<<120>>), LTrue})
\* the bindings that walk a table argument with ForEach
TableFns == {"bytestostring", "bytestorune", "runetobytes", "seq", "sortAlpha",
             "compact", "uniq"}

StringsFields == \E args \in Calls("Fields", Args1(StrVals(SeqsUpTo({97, 32}, MaxStrLen + 1)))) :
    Invoke("Fields", args, stringsFields(args))
StringsSplit == \E args \in Calls("Split", Args2(StrVals(Strs), StrVals(SeqsUpTo({97}, 1)))) :
    Invoke("Split", args, stringsSplit(args))
StringsSplitAfter ==
    \E args \in Calls("SplitAfter", Args2(StrVals(Strs), StrVals(SeqsUpTo({97}, 1)))) :
        Invoke("SplitAfter", args, stringsSplitAfter(args))
Runeslice == \E args \in Calls("runeslice", Args1(StrVals(RuneStrs))) :
    Invoke("runeslice", args, RuneSlice(args))
Runesplit ==
    \E args \in Calls("runesplit",
                      Args2(StrVals(RuneStrs), {LNumber(97), LNumber(233), LNumber(RuneError)})) :
        Invoke("runesplit", args, RuneSplit(args))
Stringtobytes == \E args \in Calls("stringtobytes", Args1(StrVals(RuneStrs))) :
    Invoke("stringtobytes", args, StringToBytes(args))
Runetobytes == \E args \in Calls("runetobytes", Args1(ArgTables)) :
    \E order \in TableOrders(args) : Invoke("runetobytes", args, RuneToBytes(args, order))
Bytestostring == \E args \in Calls("bytestostring", Args1(ArgTables)) :
    \E order \in TableOrders(args) : Invoke("bytestostring", args, BytesToString(args, order))
Bytestorune == \E args \in Calls("bytestorune", Args1(ArgTables)) :
    \E order \in TableOrders(args) : Invoke("bytestorune", args, BytesToRune(args, order))
SprigSeq == \E args \in Calls("seq", Args1(SeqTables)) :
    \E order \in TableOrders(args) : Invoke("seq", args, SeqFunc(args, order))
SortAlpha == \E args \in Calls("sortAlpha", Args1(ArgTables \cup StrVals(Strs) \cup {LNumber(1)})) :
    \E order \in TableOrders(args) : Invoke("sortAlpha", args, SortAlphaFunc(args, order))

\* texts over "0", "1", "7", "8", "-" and "a"
OctTexts == SeqsUpTo({48, 49, 55, 56, 45, 97}, MaxStrLen + 1)
ToDecimal ==
    \E args \in Calls("toDecimal",
                      Args1(StrVals(OctTexts) \cup IntVals
                            \cup {LNil, LTrue, LFalse, LNumber(10), LNumber(177), LFrac(15),
                                  LTable(<<>>)})) :
        Invoke("toDecimal", args, ToDecimalFunc(args))
\* texts over "1", "3", "-" and "a"
DecTexts == SeqsUpTo({49, 51, 45, 97}, MaxStrLen + 1)
Duration ==
    \E args \in Calls("duration",
                      Args1(StrVals(DecTexts) \cup IntVals
                            \cup {LNil, LTrue, LTable(<<>>), LFrac(15), LFrac(-15),
                                  LNumber(Pow2(IntBits - 1) \div Second),
                                  LNumber(Pow2(IntBits - 1) \div Second + 1)})) :
        Invoke("duration", args, DurationFunc(args))
\* tables of values that are empty (0, "", false, a table without entries)
\* and values that are not
ValueTables ==
    ArgTablesOf({LNumber(0), LNumber(1), LString(<<>>), LString(<<97>>), LFalse, LTable(<<>>)})
Compact == \E args \in Calls("compact", Args1(ValueTables)) :
    \E order \in TableOrders(args) : Invoke("compact", args, CompactFunc(args, order))
\* tables of the number 1, the string "1", true, the string "true" and "a"
UniqTables ==
    ArgTablesOf({LNumber(1), LString(<<49>>), LTrue, LString(<<116, 114, 117, 101>>),
                 LString(<<97>>)})
Uniq == \E args \in Calls("uniq", Args1(UniqTables)) :
    \E order \in TableOrders(args) : Invoke("uniq", args, UniqFunc(args, order))
SprigAll == \E args \in Calls("all", Args1(ValueTables)) :
    \E order \in TableOrders(args) : Invoke("all", args, AllFunc(args, order))
SprigAny == \E args \in Calls("any", Args1(ValueTables)) :
    \E order \in TableOrders(args) : Invoke("any", args, AnyFunc(args, order))
Empty ==
    \E args \in Calls("empty",
                      Args1({LFalse, LNumber(0), LNumber(1), LString(<<>>), LString(<<97>>),
                             LTable(<<>>), ListTable(<<LNumber(0)>>)})) :
        Invoke("empty", args, EmptyFunc(args))
\* "hello world"
HelloWorld == <<104, 101, 108, 108, 111, 32, 119, 111, 114, 108, 100>>
Substr ==
    \E args \in Calls("substr",
                      Args3(IntVals, IntVals, StrVals(Strs \cup {<<97, 98, 97>>}))
                      \cup {<<LNumber(-5), LNumber(11), LString(HelloWorld)>>,
                            <<LNumber(6), LNumber(11), LString(HelloWorld)>>}) :
        Invoke("substr", args, SubstrFunc(args))
\* a second passes on the wall clock
Tick ==
    /\ now < MaxTicks
    /\ now' = now + 1
    /\ UNCHANGED <<call, out, prev>>
    /\ UNCHANGED jsonVars

InitJSON ==
    /\ heap = [id \in 0..(MaxTables - 1) |-> <<>>]
    /\ jroot = LNil
    /\ jout = NoOutcome
    /\ jdec = NoOutcome
    /\ jpc = "build"

Init ==
    /\ call = NoCall
    /\ out = NoOutcome
    /\ prev = NoOutcome
    /\ now = 0
    /\ InitJSON

Next ==
    \/ B32dec \/ B64dec \/ B64enc
    \/ Runeat \/ Runeindex \/ Runerange \/ Runewidth
    \/ StringsRepeat \/ StringsSplitN \/ StringsSplitAfterN
    \/ RegexFindAll \/ RegexFind \/ RegexMatch
    \/ RegexReplaceAll \/ RegexReplaceAllLiteral \/ RegexSplit
    \/ Abbrev \/ Ago \/ Coalesce \/ DecryptAES \/ EncryptAES
    \/ RandInt \/ SemverCompare \/ Shuffle
    \/ StringsFields \/ StringsSplit \/ StringsSplitAfter
    \/ Runeslice \/ Runesplit \/ Stringtobytes
    \/ Runetobytes \/ Bytestostring \/ Bytestorune
    \/ SprigSeq \/ SortAlpha
    \/ ToDecimal \/ Duration
    \/ Compact \/ Uniq \/ SprigAll \/ SprigAny \/ Empty
    \/ Substr
    \/ Tick

Spec == Init /\ [][Next]_vars
----------------------------------------------------------------------------
(* Properties of the bindings. *)

RegexFamily == {"regexFind", "regexFindAll", "regexMatch", "regexReplaceAll",
                "regexReplaceAllLiteral", "regexSplit"}
\* the bindings whose native call has an error result
ErrorCapable == {"b32dec", "b64dec", "decryptAES", "encryptAES", "semverCompare"}
                \cup RegexFamily
\* the modelled bindings whose native call has no error result
CannotFail == {"b64enc", "runeat", "runeindex", "runerange", "runewidth",
               "Repeat", "SplitN", "SplitAfterN",
               "abbrev", "ago", "coalesce", "randInt", "shuffle",
               "Fields", "Split", "SplitAfter", "runeslice", "runesplit",
               "stringtobytes", "runetobytes", "bytestostring", "bytestorune",
               "seq", "sortAlpha", "toDecimal", "duration",
               "compact", "uniq", "all", "any", "empty",
               "substr"}

\* c passes the arguments its binding requires, each of a type it accepts
RequiredArgs(c) ==
    IF c.fn \in {"b32dec", "b64dec"} THEN GetTop(c.args) >= 1 /\ CanString(c.args, 1)
    ELSE IF c.fn \in {"decryptAES", "encryptAES", "semverCompare", "regexFind", "regexMatch"}
         THEN GetTop(c.args) >= 2 /\ CanString(c.args, 1) /\ CanString(c.args, 2)
    ELSE IF c.fn \in {"regexReplaceAll", "regexReplaceAllLiteral"}
         THEN GetTop(c.args) >= 3 /\ CanString(c.args, 1) /\ CanString(c.args, 2)
              /\ CanString(c.args, 3)
    ELSE IF c.fn \in {"regexFindAll", "regexSplit"}
         THEN GetTop(c.args) >= 3 /\ CanString(c.args, 1) /\ CanString(c.args, 2)
              /\ CanNumber(c.args, 3)
    ELSE FALSE

\* o is (nil, message)
IsFailurePair(o) ==
    o.kind = "return" /\ Len(o.vals) = 2 /\ o.vals[1] = LNil /\ o.vals[2].t = "string"
\* o is (result, nil)
IsSuccessPair(o) ==
    o.kind = "return" /\ Len(o.vals) = 2 /\ o.vals[1] # LNil /\ o.vals[2] = LNil
\* o is the re-raise of a native panic by the binding's recover handler
IsRecoveredPanic(o) ==
    o.kind = "raise" /\ Len(o.msg) = 3 /\ o.msg[2] # "bad argument"

\* C1: every binding whose native call can return an error, called with the
\* arguments it requires, ends by returning two values, (nil, message) or
\* (result, nil), and never by raising the native error (a native panic, which
\* is no error result, apart).
C1_TwoValueConvention ==
    (call.fn \in ErrorCapable /\ RequiredArgs(call) /\ ~IsRecoveredPanic(out))
        => (IsFailurePair(out) \/ IsSuccessPair(out))

\* C2: a regex binding called with the string and number arguments it requires
\* returns exactly two values: (nil, message) when the pattern does not compile,
\* (result, nil) when it does; it never raises.
C2_RegexTwoValues ==
    (call.fn \in RegexFamily /\ RequiredArgs(call))
        => IF RegexpCompile(CheckString(call.args, 1)).err
           THEN IsFailurePair(out)
           ELSE IsSuccessPair(out)

\* a pattern that does not compile came back as (nil, message)
C2_Witness ==
    /\ call.fn = "regexMatch"
    /\ RequiredArgs(call)
    /\ RegexpCompile(CheckString(call.args, 1)).err
    /\ IsFailurePair(out)

\* C3: a binding that cannot fail returns exactly one value whenever it returns.
C3_OneValue ==
    (call.fn \in CannotFail /\ out.kind = "return") => Len(out.vals) = 1

\* SplitN with n = 0 returned the single value nil
C3_Witness ==
    /\ call.fn = "SplitN"
    /\ out = Return(<<LNil>>)
    /\ CheckInt(call.args, 3) = 0

\* C4: no binding lets a native panic leave it uncaught; every panic inside a
\* binding comes out as a raised Lua error.
C4_PanicsCaught == out.kind # "panic"

\* c draws from the random source, reads the clock, or ranges over a Go map
\* (the hash part of a table) of more than one arrangement
ConsultsRandomOrClock(c) ==
    \/ c.fn \in {"shuffle", "encryptAES", "ago"}
    \/ c.fn \in (TableFns \ {"sortAlpha"}) /\ Cardinality(TableOrders(c.args)) > 1
    \/ /\ c.fn = "randInt"
       /\ GetTop(c.args) >= 2 /\ CanNumber(c.args, 1) /\ CanNumber(c.args, 2)
       /\ CheckNumber(c.args, 1) < CheckNumber(c.args, 2)

\* C5 as stated: an invocation that repeats the one before it, with the same
\* arguments, ends as that one did, whatever the binding.
C5_EveryBindingPure == prev # NoOutcome => out = prev

\* C5 amended: an invocation that repeats the one before it ends as that one
\* did, unless the binding draws from the random source or reads the clock.
C5_PureUnlessRandomOrClock ==
    (prev # NoOutcome /\ ~ConsultsRandomOrClock(call)) => out = prev

\* randInt called twice with max below min gave min both times
C5_Witness ==
    /\ call.fn = "randInt"
    /\ prev # NoOutcome
    /\ out.kind = "return"
    /\ CheckNumber(call.args, 2) < CheckNumber(call.args, 1)
    /\ out = prev
----------------------------------------------------------------------------
(* glua-json: encoding (spec 4.3).  A table of the script is a reference   *)
(* into heap; a table's entries stand in the order iteration meets them.   *)

Ref(id) == [t |-> "table", id |-> id]
TableIds == 0..(MaxTables - 1)

\* the keys of a table
Keys(es) == {es[i][1] : i \in DOMAIN es}
\* the values of a table
Values(es) == {es[i][2] : i \in DOMAIN es}
\* LTable.RawGet: the value at key k, nil when there is none
RawGet(es, k) ==
    IF \E i \in DOMAIN es : es[i][1] = k
    THEN es[CHOOSE i \in DOMAIN es : es[i][1] = k][2]
    ELSE LNil
\* the integer keys of a table
IntKeys(es) == {k.n : k \in {x \in Keys(es) : x.t = "number"}}

\* KeyShape, were integer keys never checked for gaps
KeyShape_NoGapCheck(es) ==
    IF es = <<>> THEN "array"
    ELSE IF \A k \in Keys(es) : k.t = "number" THEN "array"
    ELSE IF \A k \in Keys(es) : k.t = "string" THEN "object"
    ELSE "mixed"

\* KeyShape, were the integer keys measured against the number of entries
KeyShape_GapByLen(es) ==
    IF es = <<>> THEN "array"
    ELSE IF (\A k \in Keys(es) : k.t = "number") /\ IntKeys(es) = 1..Len(es) THEN "array"
    ELSE IF \A k \in Keys(es) : k.t = "string" THEN "object"
    ELSE IF IntKeys(es) # {} /\ IntKeys(es) # 1..Len(es) THEN "sparse"
    ELSE "mixed"

\* KeyShape, were a table with no entries an object
KeyShape_EmptyObject(es) ==
    IF es = <<>> THEN "object"
    ELSE IF (\A k \in Keys(es) : k.t = "number") /\ IntKeys(es) = 1..Len(es) THEN "array"
    ELSE IF \A k \in Keys(es) : k.t = "string" THEN "object"
    ELSE IF IntKeys(es) # {} /\ IntKeys(es) # 1..Cardinality(IntKeys(es)) THEN "sparse"
    ELSE "mixed"

\* spec 4.3 step 5a and 5d: the key shape found by scanning all keys once
KeyShape(es) ==
    IF es = <<>> THEN "array"
    ELSE IF (\A k \in Keys(es) : k.t = "number") /\ IntKeys(es) = 1..Len(es) THEN "array"
    ELSE IF \A k \in Keys(es) : k.t = "string" THEN "object"
    ELSE IF IntKeys(es) # {} /\ IntKeys(es) # 1..Cardinality(IntKeys(es)) THEN "sparse"
    ELSE "mixed"

\* the messages of the three kinds of EncodingError, in the pieces tests match on
ErrSparse == <<"cannot encode ", "sparse array">>
ErrMixed == <<"cannot encode ", "mixed or invalid key types">>
ErrNested == <<"cannot encode ", "recursively nested", " tables">>
\* the recursion ran deeper than any path of distinct tables can: the Go stack
\* of an encoder that never stops
ErrOverflow == <<"fatal error", "stack overflow">>

EncOK(text) == [ok |-> TRUE, text |-> text, err |-> <<>>]
EncErr(e) == [ok |-> FALSE, text |-> <<>>, err |-> e]

\* the texts ss joined by ","
RECURSIVE JoinComma(_)
JoinComma(ss) ==
    IF ss = <<>> THEN <<>>
    ELSE IF Len(ss) = 1 THEN ss[1]
    ELSE ss[1] \o <<44>> \o JoinComma(Tail(ss))

\* EscapeString, were nothing escaped
EscapeString_Raw(s) == s

\* spec 4.3 step 4: a quoted string, '"' and '\' escaped
RECURSIVE EscapeString(_)
EscapeString(s) ==
    IF s = <<>> THEN <<>>
    ELSE (IF Head(s) \in {34, 92} THEN <<92, Head(s)>> ELSE <<Head(s)>>) \o EscapeString(Tail(s))
QuoteString(s) == <<34>> \o EscapeString(s) \o <<34>>

\* Revisit, were no table remembered
Revisit_Never(id, path) == FALSE

\* spec 4.3 step 6: the table is one of those being visited on the active path
Revisit(id, path) == id \in path

\* the deepest recursion a path of distinct tables needs
MaxDepth == MaxTables + 1

\* spec 4.3: the text of value v over heap h, or the first failure met
RECURSIVE EncodeValue(_, _, _, _)
EncodeValue(h, v, path, depth) ==
    IF v.t = "nil" THEN EncOK(<<110, 117, 108, 108>>)
    ELSE IF v.t = "bool" THEN EncOK(IF v.b THEN <<116, 114, 117, 101>>
                                    ELSE <<102, 97, 108, 115, 101>>)
    ELSE IF v.t = "number" THEN EncOK(Itoa(v.n))
    ELSE IF v.t = "string" THEN EncOK(QuoteString(v.s))
    ELSE IF Revisit(v.id, path) THEN EncErr(ErrNested)
    ELSE IF depth = 0 THEN EncErr(ErrOverflow)
    ELSE LET es == h[v.id]
             shape == KeyShape(es)
             \* the elements in index order, or the members in iteration order
             child(i) == IF shape = "array" THEN RawGet(es, LNumber(i)) ELSE es[i][2]
             enc == [i \in 1..Len(es) |-> EncodeValue(h, child(i), path \cup {v.id}, depth - 1)]
             bad == {i \in 1..Len(es) : ~enc[i].ok}
         IN IF shape = "sparse" THEN EncErr(ErrSparse)
            ELSE IF shape = "mixed" THEN EncErr(ErrMixed)
            ELSE IF bad # {} THEN enc[CHOOSE i \in bad : \A j \in bad : i <= j]
            ELSE IF shape = "array"
                 THEN EncOK(<<91>> \o JoinComma([i \in 1..Len(es) |-> enc[i].text]) \o <<93>>)
            ELSE EncOK(<<123>>
                       \o JoinComma([i \in 1..Len(es) |->
                                        QuoteString(es[i][1].s) \o <<58>> \o enc[i].text])
                       \o <<125>>)

\* json.encode(v): (text, nil), or (nil, message) for an EncodingError
JsonEncode(h, v) ==
    LET r == EncodeValue(h, v, {}, MaxDepth) IN
    IF r.ok THEN Return(<<LString(r.text), LNil>>)
    ELSE IF r.err = ErrOverflow THEN Panic(r.err)
    ELSE Return(<<LNil, [t |-> "string", msg |-> r.err]>>)
----------------------------------------------------------------------------
(* glua-json: decoding (spec 4.4).  The parser reads one value off the     *)
(* front of the text; a decoded table holds its entries by value.          *)

ParseOK(v, rest) == [ok |-> TRUE, val |-> v, rest |-> rest]
ParseFail == [ok |-> FALSE, val |-> LNil, rest |-> <<>>]

\* the length of the integer literal that starts s: an optional "-", then digits
NumberLen(s) ==
    LET from == IF s # <<>> /\ Head(s) = 45 THEN 2 ELSE 1
        stops == {i \in from..Len(s) : ~IsDecimalDigit(s[i])}
        end == IF stops = {} THEN Len(s) + 1 ELSE CHOOSE i \in stops : \A j \in stops : i <= j
    IN IF end = from THEN 0 ELSE end - 1

\* the string literal whose opening quote was just read: [ok, val, rest]
RECURSIVE ParseString(_, _)
ParseString(s, acc) ==
    IF s = <<>> THEN ParseFail
    ELSE IF Head(s) = 34 THEN ParseOK(acc, Tail(s))
    ELSE IF Head(s) = 92
         THEN IF Len(s) >= 2 /\ s[2] \in {34, 92}
              THEN ParseString(Drop(s, 2), Append(acc, s[2]))
              ELSE ParseFail
    ELSE ParseString(Tail(s), Append(acc, Head(s)))

RECURSIVE ParseValue(_)
RECURSIVE ParseElements(_, _)
RECURSIVE ParseMembers(_, _)

\* the elements of a list after "[": list -> table with keys 1..N
ParseElements(s, acc) ==
    LET e == ParseValue(s) IN
    IF ~e.ok \/ e.rest = <<>> THEN ParseFail
    ELSE IF Head(e.rest) = 44 THEN ParseElements(Tail(e.rest), Append(acc, e.val))
    ELSE IF Head(e.rest) = 93 THEN ParseOK(ListTable(Append(acc, e.val)), Tail(e.rest))
    ELSE ParseFail

\* the members of a map after "{": map -> table with string keys in enumeration order
ParseMembers(s, acc) ==
    IF s = <<>> \/ Head(s) # 34 THEN ParseFail
    ELSE LET k == ParseString(Tail(s), <<>>) IN
         IF ~k.ok \/ k.rest = <<>> \/ Head(k.rest) # 58 THEN ParseFail
         ELSE LET m == ParseValue(Tail(k.rest))
                  entries == Append(acc, <<LString(k.val), m.val>>)
              IN IF ~m.ok \/ m.rest = <<>> THEN ParseFail
                 ELSE IF Head(m.rest) = 44 THEN ParseMembers(Tail(m.rest), entries)
                 ELSE IF Head(m.rest) = 125 THEN ParseOK(LTable(entries), Tail(m.rest))
                 ELSE ParseFail

\* spec 4.4: null -> nil, bool -> boolean, number -> number, string -> string
ParseValue(s) ==
    IF s = <<>> THEN ParseFail
    ELSE IF HasPrefix(s, <<110, 117, 108, 108>>) THEN ParseOK(LNil, Drop(s, 4))
    ELSE IF HasPrefix(s, <<116, 114, 117, 101>>) THEN ParseOK(LTrue, Drop(s, 4))
    ELSE IF HasPrefix(s, <<102, 97, 108, 115, 101>>) THEN ParseOK(LFalse, Drop(s, 5))
    ELSE IF Head(s) = 34
         THEN LET r == ParseString(Tail(s), <<>>) IN
              IF r.ok THEN ParseOK(LString(r.val), r.rest) ELSE ParseFail
    ELSE IF Head(s) = 45 \/ IsDecimalDigit(Head(s))
         THEN LET n == NumberLen(s) IN
              IF n = 0 THEN ParseFail ELSE ParseOK(LNumber(Atoi(Take(s, n), 0)), Drop(s, n))
    ELSE IF Head(s) = 91
         THEN IF Len(s) >= 2 /\ s[2] = 93 THEN ParseOK(LTable(<<>>), Drop(s, 2))
              ELSE ParseElements(Tail(s), <<>>)
    ELSE IF Head(s) = 123
         THEN IF Len(s) >= 2 /\ s[2] = 125 THEN ParseOK(LTable(<<>>), Drop(s, 2))
              ELSE ParseMembers(Tail(s), <<>>)
    ELSE ParseFail

\* json.decode(text): (value, nil), or (nil, message) for a DecodingError
JsonDecode(text) ==
    LET r == ParseValue(text) IN
    IF r.ok /\ r.rest = <<>> THEN Return(<<r.val, LNil>>)
    ELSE Return(<<LNil, [t |-> "string", msg |-> <<"invalid json">>]>>)
----------------------------------------------------------------------------
(* The script under test of glua-json: it builds tables field by field,    *)
(* encodes one value, and decodes the text it got.                         *)

\* the keys a script sets: 1, 2, 3, "a", the one-character string '"', false
JsonKeys == {LNumber(1), LNumber(2), LNumber(3), LString(<<97>>), LString(<<34>>), LFalse}
\* the values a script stores: -12, the string 'x"', true, and its tables
JsonVals == {LNumber(-12), LString(<<120, 34>>), LTrue} \cup {Ref(id) : id \in TableIds}
\* the scalars a script encodes: nil, booleans, numbers, strings over 'x', '"', '\'
JsonScalars ==
    {LNil, LTrue, LFalse} \cup {LNumber(n) : n \in {-10, 0, 1, 12345}}
    \cup StrVals(SeqsUpTo({120, 34, 92}, MaxStrLen))

RECURSIVE SumLen(_, _)
SumLen(h, ids) ==
    IF ids = {} THEN 0
    ELSE LET id == CHOOSE x \in ids : TRUE IN Len(h[id]) + SumLen(h, ids \ {id})

\* t[k] = v for a key the table does not hold yet
SetField ==
    /\ jpc = "build"
    /\ SumLen(heap, TableIds) < MaxEntries
    /\ \E id \in TableIds : \E k \in JsonKeys \ Keys(heap[id]) : \E v \in JsonVals :
          heap' = [heap EXCEPT ![id] = Append(@, <<k, v>>)]
    /\ UNCHANGED <<jroot, jout, jdec, jpc>>
    /\ UNCHANGED bindVars

\* json.encode(v) for one of the tables, or for a scalar by a script with no entries
Encode ==
    /\ jpc = "build"
    /\ \E v \in {Ref(id) : id \in TableIds}
               \cup (IF SumLen(heap, TableIds) = 0 THEN JsonScalars ELSE {}) :
          /\ jroot' = v
          /\ jout' = JsonEncode(heap, v)
    /\ jpc' = "encoded"
    /\ UNCHANGED <<heap, jdec>>
    /\ UNCHANGED bindVars

\* json.decode(text) of the text json.encode returned
Decode ==
    /\ jpc = "encoded"
    /\ jout.kind = "return"
    /\ jout.vals[1].t = "string"
    /\ jdec' = JsonDecode(jout.vals[1].s)
    /\ jpc' = "decoded"
    /\ UNCHANGED <<heap, jroot, jout>>
    /\ UNCHANGED bindVars

NextJSON == SetField \/ Encode \/ Decode

SpecJSON == Init /\ [][NextJSON]_vars

----------------------------------------------------------------------------
(* Properties of glua-json. *)

\* keys exactly 1..N
IsPureArray(es) == Keys(es) = {LNumber(i) : i \in 1..Len(es)}
\* string keys only
IsPureObject(es) == es # <<>> /\ \A k \in Keys(es) : k.t = "string"

\* the tables stored in table id
Children(h, id) == {v.id : v \in {x \in Values(h[id]) : x.t = "table"}}
\* the tables reached from those of S in at most n steps
RECURSIVE ReachN(_, _, _)
ReachN(h, S, n) ==
    IF n = 0 THEN S ELSE ReachN(h, S \cup UNION {Children(h, id) : id \in S}, n - 1)
\* table id and the tables nested in it at any depth
Reachable(h, id) == ReachN(h, {id}, MaxTables)
\* table id contains itself, directly or through a chain of tables
OnCycle(h, id) == id \in ReachN(h, Children(h, id), MaxTables)

\* v is an acyclic tree of scalars, pure arrays and pure objects
Encodable(h, v) ==
    v.t = "table" =>
        \A id \in Reachable(h, v.id) :
            ~OnCycle(h, id) /\ (IsPureArray(h[id]) \/ IsPureObject(h[id]))

\* structural equality of the script's value v and the decoded value d
RECURSIVE StructEq(_, _, _)
StructEq(h, v, d) ==
    IF v.t = "table"
    THEN /\ d.t = "table"
         /\ Keys(h[v.id]) = Keys(d.es)
         /\ Len(h[v.id]) = Len(d.es)
         /\ \A k \in Keys(h[v.id]) : StructEq(h, RawGet(h[v.id], k), RawGet(d.es, k))
    ELSE v = d

Contains(msg, part) == \E i \in DOMAIN msg : msg[i] = part
\* json.encode failed with a message containing part
FailedWith(o, part) == IsFailurePair(o) /\ Contains(o.vals[2].msg, part)
\* json.encode returned the text s
Encoded(o, s) == o = Return(<<LString(s), LNil>>)

\* json.encode was called on a table
RootIsTable == jpc # "build" /\ jroot.t = "table"

\* C6: every acyclic tree of scalars, pure arrays and pure objects encodes, and
\* the text decodes to a value structurally equal to it.
C6_RoundTrip ==
    (jpc # "build" /\ Encodable(heap, jroot))
        => /\ IsSuccessPair(jout)
           /\ jout.vals[1].t = "string"
           /\ jpc = "decoded" =>
                 /\ jdec.kind = "return"
                 /\ jdec.vals[2] = LNil
                 /\ StructEq(heap, jroot, jdec.vals[1])

\* an object that holds a one-element array made the round trip
C6_Witness ==
    /\ jpc = "decoded"
    /\ jroot = Ref(0)
    /\ IsPureObject(heap[0])
    /\ \E v \in Values(heap[0]) : v.t = "table" /\ IsPureArray(heap[v.id]) /\ heap[v.id] # <<>>
    /\ StructEq(heap, jroot, jdec.vals[1])

\* C7: encoding a table whose keys are all integers but not exactly 1..N
\* returns nil and a message containing "sparse array", and no text.
C7_SparseArray ==
    (/\ RootIsTable
     /\ heap[jroot.id] # <<>>
     /\ \A k \in Keys(heap[jroot.id]) : k.t = "number"
     /\ ~IsPureArray(heap[jroot.id]))
        => FailedWith(jout, "sparse array")

\* the table {[1] = .., [3] = ..} was refused as a sparse array
C7_Witness ==
    /\ RootIsTable
    /\ Keys(heap[jroot.id]) = {LNumber(1), LNumber(3)}
    /\ FailedWith(jout, "sparse array")

\* the table has both integer and string keys, or a key that is neither
HasMixedOrInvalidKeys(es) ==
    \/ (\E k \in Keys(es) : k.t = "number") /\ (\E k \in Keys(es) : k.t = "string")
    \/ \E k \in Keys(es) : k.t \notin {"number", "string"}

\* C8 as stated: encoding a table with both integer and string keys, or with a
\* key that is neither, returns nil and a message containing "mixed or invalid
\* key types".
C8_MixedKeys ==
    (RootIsTable /\ HasMixedOrInvalidKeys(heap[jroot.id]))
        => FailedWith(jout, "mixed or invalid key types")

\* C8 amended: such a table whose integer keys, if it has any, are exactly 1..N
\* is refused with "mixed or invalid key types", whichever key iteration meets first.
C8_MixedKeysNoGap ==
    (/\ RootIsTable
     /\ HasMixedOrInvalidKeys(heap[jroot.id])
     /\ IntKeys(heap[jroot.id]) = 1..Cardinality(IntKeys(heap[jroot.id])))
        => FailedWith(jout, "mixed or invalid key types")

\* a table whose string key came first and whose integer key 1 came second was
\* refused for its mixed keys
C8_Witness ==
    /\ RootIsTable
    /\ Len(heap[jroot.id]) = 2
    /\ heap[jroot.id][1][1].t = "string"
    /\ heap[jroot.id][2][1] = LNumber(1)
    /\ FailedWith(jout, "mixed or invalid key types")

\* C9 as stated: encoding a table that contains itself, directly or through a
\* chain, returns nil and a message containing "recursively nested".
C9_CycleNested ==
    (RootIsTable /\ OnCycle(heap, jroot.id)) => FailedWith(jout, "recursively nested")

\* C9 amended: encoding a table that contains itself ends, returning nil and a
\* message; the message contains "recursively nested" when every table nested in
\* it is a pure array or a pure object.
C9_CycleFails ==
    (RootIsTable /\ OnCycle(heap, jroot.id))
        => /\ IsFailurePair(jout)
           /\ (\A id \in Reachable(heap, jroot.id) :
                  IsPureArray(heap[id]) \/ IsPureObject(heap[id]))
              => FailedWith(jout, "recursively nested")

\* a table that holds a second table that holds the first was refused as
\* recursively nested
C9_Witness ==
    /\ RootIsTable
    /\ jroot = Ref(0)
    /\ Children(heap, 0) = {1}
    /\ Children(heap, 1) = {0}
    /\ FailedWith(jout, "recursively nested")

\* C10: nil encodes as "null"; a table with no entries encodes as "[]", alone,
\* as the elements of an array and as the member of an object.
C10_NullAndEmpty ==
    jpc # "build" =>
        /\ jroot = LNil => Encoded(jout, <<110, 117, 108, 108>>)
        /\ (jroot.t = "table" /\ heap[jroot.id] = <<>>) => Encoded(jout, <<91, 93>>)
        /\ (/\ jroot.t = "table"
            /\ heap[jroot.id] # <<>>
            /\ IsPureArray(heap[jroot.id])
            /\ \A v \in Values(heap[jroot.id]) : v.t = "table" /\ heap[v.id] = <<>>)
              => Encoded(jout, <<91>> \o JoinComma([i \in 1..Len(heap[jroot.id]) |-> <<91, 93>>])
                               \o <<93>>)
        /\ (/\ jroot.t = "table"
            /\ Keys(heap[jroot.id]) = {LString(<<97>>)}
            /\ \A v \in Values(heap[jroot.id]) : v.t = "table" /\ heap[v.id] = <<>>)
              => Encoded(jout, <<123, 34, 97, 34, 58, 91, 93, 125>>)

\* an array whose two elements are the same empty table encoded as "[[],[]]"
C10_Witness ==
    /\ jpc # "build"
    /\ jroot = Ref(0)
    /\ heap[1] = <<>>
    /\ heap[0] = <<<<LNumber(1), Ref(1)>>, <<LNumber(2), Ref(1)>>>>
    /\ Encoded(jout, <<91, 91, 93, 44, 91, 93, 93>>)
----------------------------------------------------------------------------
(* Properties of the bindings that take or return lists. *)

\* the bindings that return a sequence of strings, bytes or runes
ListFns == {"Split", "SplitN", "SplitAfter", "SplitAfterN", "Fields",
            "runeslice", "runesplit", "stringtobytes", "runetobytes",
            "regexFindAll", "regexSplit", "sortAlpha"}

\* v is a table whose keys are exactly 1..N, in that order
IsList(v) == v.t = "table" /\ \A i \in 1..Len(v.es) : v.es[i][1] = LNumber(i)

\* o is a return that reports no error
ReturnsResult(o) ==
    o.kind = "return" /\ Len(o.vals) >= 1 /\ (Len(o.vals) = 2 => o.vals[2] = LNil)

\* SplitN or SplitAfterN called with n = 0
SplitsNothing(c) ==
    c.fn \in {"SplitN", "SplitAfterN"} /\ CanInt(c.args, 3) /\ CheckInt(c.args, 3) = 0

\* C11 as stated: whenever a binding that returns a sequence returns its
\* result, the result is a table whose keys are exactly 1..N in output order,
\* SplitN and SplitAfterN with n = 0 included.
C11_ListTable ==
    (call.fn \in ListFns /\ ReturnsResult(out)) => IsList(out.vals[1])

\* C11 amended: whenever a binding that returns a sequence returns its result,
\* the result is a table whose keys are exactly 1..N in output order, except
\* that SplitN and SplitAfterN with n = 0 return nil.
C11_ListTableUnlessZero ==
    (call.fn \in ListFns /\ ReturnsResult(out))
        => IF SplitsNothing(call) THEN out.vals = <<LNil>> ELSE IsList(out.vals[1])

\* Fields of a text of spaces only returned a table without entries
C11_Witness ==
    /\ call.fn = "Fields"
    /\ CanString(call.args, 1) /\ Len(CheckString(call.args, 1)) > 0
    /\ out = Return(<<LTable(<<>>)>>)

\* the bindings that read a table of bytes, runes or integers
NumberListFns == {"bytestostring", "bytestorune", "runetobytes", "seq"}

\* the outcome of binding fn when ForEach visits the entries of its table
\* argument in the given order
WalkOutcome(fn, args, order) ==
    IF fn = "bytestostring" THEN BytesToString(args, order)
    ELSE IF fn = "bytestorune" THEN BytesToRune(args, order)
    ELSE IF fn = "runetobytes" THEN RuneToBytes(args, order)
    ELSE SeqFunc(args, order)

\* the entries of order that hold a number, in the same order
NumberEntries(order) == SelectSeq(order, IsNumberEntry)

\* C12: bytestostring, bytestorune, runetobytes and seq, given a table, return
\* without raising, and what they return is what they return for the table
\* without its non-number entries, visited in the same order.
C12_SkipsNonNumbers ==
    (call.fn \in NumberListFns /\ CanTable(call.args, 1))
        => /\ out.kind = "return"
           /\ \E order \in TableOrders(call.args) :
                  out = WalkOutcome(call.fn, <<LTable(NumberEntries(order))>>, NumberEntries(order))

\* bytestostring of a table with a number after an entry that is no number
\* returned the byte of the number alone
C12_Witness ==
    /\ call.fn = "bytestostring"
    /\ CanTable(call.args, 1)
    /\ Len(call.args[1].es) = 2
    /\ ~IsNumberEntry(call.args[1].es[1])
    /\ IsNumberEntry(call.args[1].es[2])
    /\ out = Return(<<LString(<<call.args[1].es[2][2].n>>)>>)
----------------------------------------------------------------------------
(* Properties of randInt. *)

\* c is a call of randInt with two arguments that are numbers
RandArgs(c) ==
    c.fn = "randInt" /\ GetTop(c.args) >= 2 /\ CanNumber(c.args, 1) /\ CanNumber(c.args, 2)

\* C13: randInt(min, max) with min = max returns min, on every invocation and
\* whatever the random source would yield.
C13_EqualBounds ==
    (RandArgs(call) /\ CheckNumber(call.args, 1) = CheckNumber(call.args, 2))
        => /\ out = Return(<<LNumber(CheckNumber(call.args, 1))>>)
           /\ prev # NoOutcome => prev = out

\* randInt called a second time with equal bounds returned min again
C13_Witness ==
    /\ RandArgs(call)
    /\ CheckNumber(call.args, 1) = CheckNumber(call.args, 2)
    /\ prev = Return(<<LNumber(CheckNumber(call.args, 1))>>)
    /\ out = prev

\* C14 as stated: randInt(min, max) with min > max returns a number r drawn
\* from the swapped range, max <= r < min.
C14_SwapsReversed ==
    (RandArgs(call) /\ CheckNumber(call.args, 1) > CheckNumber(call.args, 2))
        => /\ out.kind = "return" /\ Len(out.vals) = 1 /\ out.vals[1].t = "number"
           /\ CheckNumber(call.args, 2) <= out.vals[1].n
           /\ out.vals[1].n < CheckNumber(call.args, 1)

\* C15 as stated: randInt(min, max) with min <= max returns a number r with
\* min <= r <= max, whatever the random source yields.
C15_WithinRange ==
    (RandArgs(call) /\ CheckNumber(call.args, 1) <= CheckNumber(call.args, 2))
        => /\ out.kind = "return" /\ Len(out.vals) = 1 /\ out.vals[1].t = "number"
           /\ CheckNumber(call.args, 1) <= out.vals[1].n
           /\ out.vals[1].n <= CheckNumber(call.args, 2)
----------------------------------------------------------------------------
(* Properties of toDecimal and duration. *)

\* one argument was passed
OneArg(c) == GetTop(c.args) = 1
\* the binding returned the one number n
ReturnsNumber(o, n) == o = Return(<<LNumber(n)>>)

\* s is one or more of the digits 0..7
IsOctalDigits(s) == s # <<>> /\ \A i \in 1..Len(s) : s[i] \in 48..55
\* ... after an optional sign
IsOctalNumeral(s) ==
    s # <<>> /\ IsOctalDigits(IF Head(s) \in {43, 45} THEN Tail(s) ELSE s)
\* the number a run of octal digits denotes
RECURSIVE OctalValue(_)
OctalValue(s) ==
    IF s = <<>> THEN 0 ELSE (Head(s) - 48) * 8 ^ (Len(s) - 1) + OctalValue(Tail(s))
SignedOctalValue(s) ==
    IF Head(s) = 45 THEN -OctalValue(Tail(s))
    ELSE IF Head(s) = 43 THEN OctalValue(Tail(s))
    ELSE OctalValue(s)

\* what toDecimal gives for nil, a boolean and a text that is no octal numeral
ToDecimalDefaults ==
    LET v == call.args[1] IN
    /\ out.kind = "return" /\ Len(out.vals) = 1 /\ out.vals[1].t = "number"
    /\ v = LNil => ReturnsNumber(out, 0)
    /\ v = LTrue => ReturnsNumber(out, 1)
    /\ v = LFalse => ReturnsNumber(out, 0)
    /\ v.t = "string" /\ ~IsOctalNumeral(v.s) => ReturnsNumber(out, 0)

\* C16: toDecimal of one argument never signals an error and returns one
\* number: 0 for nil, 1 for true, 0 for false, the base-8 value for a string of
\* octal digits, and 0 for any text that is not a valid octal numeral.
C16_OctalOrZero ==
    call.fn = "toDecimal" /\ OneArg(call) =>
        LET v == call.args[1] IN
        /\ ToDecimalDefaults
        /\ v.t = "string" /\ IsOctalDigits(v.s) => ReturnsNumber(out, OctalValue(v.s))

\* C16 (amended): as above, but an octal numeral (sign allowed) gives its
\* value only when the value fits the 64-bit integer; one that does not fit
\* gives 0 like any other text.
C16_OctalInRangeOrZero ==
    call.fn = "toDecimal" /\ OneArg(call) =>
        LET v == call.args[1] IN
        /\ ToDecimalDefaults
        /\ v.t = "string" /\ IsOctalNumeral(v.s) =>
              ReturnsNumber(out, IF SignedOctalValue(v.s) \in IntMin..IntMax
                                 THEN SignedOctalValue(v.s) ELSE 0)

\* toDecimal("177") gave 127
C16_Witness ==
    /\ call = [fn |-> "toDecimal", args |-> <<LString(<<49, 55, 55>>)>>]
    /\ ReturnsNumber(out, 127)

\* s is a base-10 integer: one or more decimal digits after an optional sign
IsDecimalNumeral(s) ==
    LET d == IF s # <<>> /\ Head(s) \in {43, 45} THEN Tail(s) ELSE s IN
    d # <<>> /\ \A i \in 1..Len(d) : IsDecimalDigit(d[i])
\* the number a run of decimal digits denotes
RECURSIVE DecimalValue(_)
DecimalValue(s) ==
    IF s = <<>> THEN 0 ELSE (Head(s) - 48) * 10 ^ (Len(s) - 1) + DecimalValue(Tail(s))
SignedDecimalValue(s) ==
    IF Head(s) = 45 THEN -DecimalValue(Tail(s))
    ELSE IF Head(s) = 43 THEN DecimalValue(Tail(s))
    ELSE DecimalValue(s)

\* the seconds duration(v) is to render
SecondsOf(v) ==
    IF v.t = "number" THEN TruncInt(v)
    ELSE IF v.t = "string" /\ IsDecimalNumeral(v.s) THEN SignedDecimalValue(v.s)
    ELSE 0

\* C17: duration(x) renders a whole number of seconds and never raises on a
\* bad value: a number is truncated to integer seconds, a string is parsed as
\* a base-10 integer, and nil or a string that does not parse is 0 seconds.
C17_WholeSeconds ==
    call.fn = "duration" /\ OneArg(call) =>
        out = Return(<<LString(DurationString(SecondsOf(call.args[1])))>>)

\* the same for the values whose seconds, counted in units of time.Duration,
\* fit the integer
DurationWithinRange ==
    call.fn = "duration" /\ OneArg(call)
    /\ SecondsOf(call.args[1]) * Second \in IntMin..IntMax =>
        out = Return(<<LString(DurationString(SecondsOf(call.args[1])))>>)

----------------------------------------------------------------------------
(* Properties of the rune bindings. *)

\* s is valid UTF-8 (the texts of the script hold no encoded U+FFFD)
ValidString(s) == \A i \in 1..Len(Runes(s)) : Runes(s)[i] # RuneError

\* the string and the integers passed to a rune binding
RuneArgs(c) ==
    GetTop(c.args) >= 2 /\ c.args[1].t = "string" /\ c.args[2].t = "number"

\* C18: runeat(s, pos) returns the code point of the pos-th rune of s (pos is
\* the 1-based index of the rune) and nil when pos is outside the string; for
\* valid UTF-8 of n runes it returns a number for every pos in 1..n.
C18_RuneAtIndex ==
    call.fn = "runeat" /\ RuneArgs(call) /\ ValidString(call.args[1].s) =>
        LET runes == Runes(call.args[1].s)
            pos == call.args[2].n
        IN IF pos \in 1..Len(runes)
           THEN out = Return(<<LNumber(runes[pos])>>)
           ELSE out = Return(<<LNil>>)

\* what RuneAt does: pos counts bytes, and the rune that begins at byte pos
\* is returned
RuneAtByteOffset ==
    call.fn = "runeat" /\ RuneArgs(call) /\ ValidString(call.args[1].s) =>
        LET s == call.args[1].s
            pos == call.args[2].n
            \* the runes that begin before byte pos
            before == Len(Runes(Take(s, pos - 1)))
        IN IF pos \in 1..Len(s) /\ ValidString(Take(s, pos - 1))
           THEN out = Return(<<LNumber(Runes(s)[before + 1])>>)
           ELSE out = Return(<<LNil>>)

\* the string and the optional integers passed to runerange
RangeArgs(c) ==
    /\ GetTop(c.args) = 3
    /\ c.args[1].t = "string"
    /\ c.args[2].t \in {"nil", "number"}
    /\ c.args[3].t \in {"nil", "number"}

\* the 1-based index runerange starts at: 1 when omitted or below 1
RangeStart(c) ==
    LET a == c.args[2] IN IF a.t = "nil" \/ a.n < 1 THEN 1 ELSE a.n
\* the 1-based index runerange stops before: past the last rune when omitted,
\* negative or beyond the string
RangeEnd(c) ==
    LET a == c.args[3]
        n == Len(Runes(c.args[1].s))
    IN IF a.t = "nil" \/ a.n < 0 \/ a.n > n + 1 THEN n + 1 ELSE a.n
\* the runes at the indices from start up to, not including, end
RangeRunes(c) ==
    LET runes == Runes(c.args[1].s)
        k == RangeEnd(c) - RangeStart(c)
    IN [i \in 1..(IF k < 0 THEN 0 ELSE k) |-> runes[RangeStart(c) + i - 1]]

\* C19: runerange(s, start, end) returns the runes of s from 1-based index
\* start up to but not including 1-based index end; an omitted start is 1, a
\* start below 1 is 1, an end beyond the string is the end of the string, and
\* an omitted or negative end is the end of the string.
C19_RuneRange ==
    call.fn = "runerange" /\ RangeArgs(call) =>
        out = Return(<<LString(StringOfRunes(RangeRunes(call)))>>)

\* what RuneRange does: the same whenever it returns, and a Go panic exactly
\* when the start, brought into the string, lies past the end (an end of 0
\* counting as 1)
RuneRangeUnlessReversed ==
    call.fn = "runerange" /\ RangeArgs(call) =>
        LET n == Len(Runes(call.args[1].s))
            start == IF RangeStart(call) > n + 1 THEN n + 1 ELSE RangeStart(call)
            end == IF RangeEnd(call) < 1 THEN 1 ELSE RangeEnd(call)
        IN IF start > end
           THEN out.kind = "panic"
           ELSE out = Return(<<LString(StringOfRunes(RangeRunes(call)))>>)

----------------------------------------------------------------------------
(* Properties of coalesce. *)

\* the values coalesce passes over: nil, false, the number 0, the empty
\* string and a table with no entries
IsEmptyValue(v) ==
    v \in {LNil, LFalse, LNumber(0), LString(<<>>), LTable(<<>>)}

\* C20: coalesce(a1, ..., an) with n >= 1 returns the first argument in call
\* order that is not empty (nil, false, 0, "" and a table without entries
\* are empty), and nil when every argument is empty.
C20_FirstNonEmpty ==
    call.fn = "coalesce" /\ GetTop(call.args) >= 1 =>
        LET a == call.args IN
        \/ \E i \in 1..Len(a) :
              /\ ~IsEmptyValue(a[i])
              /\ \A j \in 1..(i - 1) : IsEmptyValue(a[j])
              /\ out = Return(<<a[i]>>)
        \/ /\ \A i \in 1..Len(a) : IsEmptyValue(a[i])
           /\ out = Return(<<LNil>>)

\* coalesce passed over an empty argument and returned a later one, itself
\* followed by another that is not empty
C20_Witness ==
    /\ call.fn = "coalesce" /\ GetTop(call.args) = 3
    /\ IsEmptyValue(call.args[1])
    /\ ~IsEmptyValue(call.args[2]) /\ ~IsEmptyValue(call.args[3])
    /\ call.args[2] # call.args[3]
    /\ out = Return(<<call.args[2]>>)

----------------------------------------------------------------------------
(* Properties of the bindings that walk a table of values. *)

\* the entry holds a value that is not empty
HoldsValue(e) == ~IsEmptyValue(e[2])
\* the values of the entries, in their order
ValuesOf(order) == [i \in 1..Len(order) |-> order[i][2]]

\* C21: compact(t) returns a new table that holds exactly the values of t
\* that are not empty, in the order t is iterated in, under the keys 1..k;
\* t itself is left as it was, and compact of the result is the result.
C21_Compact ==
    call.fn = "compact" /\ CanTable(call.args, 1) =>
        \E order \in TableOrders(call.args) :
            /\ out = Return(<<ListTable(ValuesOf(SelectSeq(order, HoldsValue)))>>)
            /\ compactEnd(call.args, order).inputTable = call.args[1].es
            /\ \A again \in TableOrders(out.vals) : CompactFunc(out.vals, again) = out

\* compact dropped an empty value from between two values it kept
C21_Witness ==
    /\ call.fn = "compact" /\ CanTable(call.args, 1)
    /\ Len(call.args[1].es) = 3
    /\ HoldsValue(call.args[1].es[1])
    /\ ~HoldsValue(call.args[1].es[2])
    /\ HoldsValue(call.args[1].es[3])
    /\ call.args[1].es[3][1] = LNumber(3)
    /\ out = Return(<<ListTable(<<call.args[1].es[1][2], call.args[1].es[3][2]>>)>>)

\* the values of vs, each at its first occurrence only
FirstOccurrences(vs) ==
    LET first == {i \in 1..Len(vs) : \A j \in 1..(i - 1) : vs[j] # vs[i]}
        RECURSIVE pick(_)
        pick(i) == IF i > Len(vs) THEN <<>>
                   ELSE (IF i \in first THEN <<vs[i]>> ELSE <<>>) \o pick(i + 1)
    IN pick(1)

\* C22: uniq(t) returns a new table with keys 1..k that holds each value
\* occurring in t exactly once, in the order of first occurrence in t; uniq
\* of its own output returns an equal table.
C22_Uniq ==
    call.fn = "uniq" /\ CanTable(call.args, 1) =>
        \E order \in TableOrders(call.args) :
            /\ out = Return(<<ListTable(FirstOccurrences(ValuesOf(order)))>>)
            /\ \A again \in TableOrders(out.vals) : UniqFunc(out.vals, again) = out

\* what UniqFunc does: values are told apart by their text, so of a number
\* and a string of the same text (or a boolean and its name) only the one
\* met first is kept
UniqByText ==
    call.fn = "uniq" /\ CanTable(call.args, 1) =>
        \E order \in TableOrders(call.args) :
            LET vs == ValuesOf(order)
                kept == FirstOccurrences([i \in 1..Len(vs) |-> uniqKey(vs[i])])
            IN /\ out.kind = "return" /\ Len(out.vals) = 1 /\ IsList(out.vals[1])
               /\ [i \in 1..Len(out.vals[1].es) |-> uniqKey(out.vals[1].es[i][2])] = kept
               /\ \A again \in TableOrders(out.vals) : UniqFunc(out.vals, again) = out

\* C23: all(t) is true exactly when no value of table t is empty, and any(t)
\* exactly when at least one value of t is not empty, empty being what
\* empty(v) reports (nil, false, 0, "" and tables without entries); on a
\* table with no entries all is true and any is false.
C23_AllAny ==
    /\ call.fn \in {"all", "any"} /\ CanTable(call.args, 1) =>
          LET vs == ValuesOf(call.args[1].es)
              isEmpty == [i \in 1..Len(vs) |-> EmptyFunc(<<vs[i]>>) = Return(<<LTrue>>)]
          IN /\ \A i \in 1..Len(vs) : isEmpty[i] = IsEmptyValue(vs[i])
             /\ call.fn = "all" => out = Return(<<LBool(\A i \in 1..Len(vs) : ~isEmpty[i])>>)
             /\ call.fn = "any" => out = Return(<<LBool(\E i \in 1..Len(vs) : ~isEmpty[i])>>)
             /\ vs = <<>> => out = Return(<<LBool(call.fn = "all")>>)
    /\ call.fn = "empty" /\ OneArg(call) =>
          out = Return(<<LBool(IsEmptyValue(call.args[1]))>>)

\* all was false and any would be true: all on a table that holds an empty
\* value before one that is not empty returned false
C23_Witness ==
    /\ call.fn = "all" /\ CanTable(call.args, 1)
    /\ Len(call.args[1].es) = 2
    /\ IsEmptyValue(call.args[1].es[1][2])
    /\ ~IsEmptyValue(call.args[1].es[2][2])
    /\ out = Return(<<LFalse>>)
    /\ AnyFunc(call.args, call.args[1].es) = Return(<<LTrue>>)

----------------------------------------------------------------------------
(* Properties of substr. *)

\* the two integers and the string passed to substr
SubstrArgs(c) ==
    /\ GetTop(c.args) = 3
    /\ c.args[1].t = "number" /\ c.args[2].t = "number" /\ c.args[3].t = "string"

\* the bytes of s from offset lo up to, not including, offset hi
Between(s, lo, hi) ==
    LET h == IF hi > Len(s) THEN Len(s) ELSE hi
        l == IF lo < 0 THEN 0 ELSE lo
    IN [i \in 1..(IF h > l THEN h - l ELSE 0) |-> s[l + i]]

\* C24: substr(start, end, s) with a negative start counts the start from the
\* end of the string: substr(-5, 11, "hello world") is "world".
C24_NegativeStartFromEnd ==
    call.fn = "substr" /\ SubstrArgs(call) /\ call.args[1].n < 0 =>
        LET s == call.args[3].s IN
        out = Return(<<LString(Between(s, Len(s) + call.args[1].n, call.args[2].n))>>)

\* what SubstrFunc does: a negative start is taken for 0, the start of the
\* string
SubstrNegativeStartIsZero ==
    call.fn = "substr" /\ SubstrArgs(call) =>
        LET s == call.args[3].s IN
        out = Return(<<LString(Between(s, call.args[1].n, call.args[2].n))>>)

----------------------------------------------------------------------------
(* Properties of runeindex. *)

\* the string, the rune and the optional start passed to runeindex
IndexArgs(c) ==
    /\ GetTop(c.args) \in {2, 3}
    /\ c.args[1].t = "string" /\ c.args[2].t = "number"
    /\ GetTop(c.args) = 3 => c.args[3].t \in {"nil", "number"}

\* the index the search starts at: 1 when omitted, 0 or below
IndexStart(c) ==
    IF GetTop(c.args) < 3 \/ c.args[3].t = "nil" THEN 1
    ELSE IF c.args[3].n < 1 THEN 1 ELSE c.args[3].n

\* C25: runeindex(s, r, start) returns the smallest 1-based rune index i with
\* i >= max(start, 1) whose rune is r, and nil when there is none (a start
\* past the end included); an omitted start is 1 and a start of 0 or below
\* behaves like 1.
C25_RuneIndex ==
    call.fn = "runeindex" /\ IndexArgs(call) =>
        LET runes == Runes(call.args[1].s)
            found == {i \in 1..Len(runes) : i >= IndexStart(call) /\ runes[i] = call.args[2].n}
        IN IF found = {}
           THEN out = Return(<<LNil>>)
           ELSE \E i \in found : (\A j \in found : i <= j) /\ out = Return(<<LNumber(i)>>)

\* runeindex, started at 2, passed over the rune at index 1 and found the
\* same rune behind a rune of two bytes, at rune index 3
C25_Witness ==
    /\ call.fn = "runeindex" /\ IndexArgs(call) /\ GetTop(call.args) = 3
    /\ call.args[3] = LNumber(2)
    /\ Len(Runes(call.args[1].s)) < Len(call.args[1].s)
    /\ Runes(call.args[1].s)[1] = call.args[2].n
    /\ out = Return(<<LNumber(3)>>)

====
